---- MODULE Spec2Model ----
(***************************************************************************)
(* The realtime server of gpx-collaboration (packages/server index.ts):    *)
(* the room registry, the upgrade gateway (path, room id, creation         *)
(* throttle, passcode), the attach callback, the close handler and the     *)
(* per-room cleanup timer.                                                  *)
(*                                                                         *)
(* Every handler of the Node event loop runs to completion, so each        *)
(* handler is one action.  The functions of the source are operators on a  *)
(* record of the server's module-level state (Srv); an action installs the *)
(* record its handler computes.                                            *)
(***************************************************************************)
EXTENDS Integers, Sequences, FiniteSets, TLC

(***************************************************************************)
(* Bounds of the model.                                                    *)
(***************************************************************************)
\* upgrade requests the environment sends in one run
MaxRequests == 3
\* Date.now() when the process starts (ms)
StartTime == 100000
\* the time between a request and the one before it is one of (ms)
ShortGap == 500
LongGap == 4000
\* snapshots the undo stack of the Room component may hold in one run
MaxSnapshots == 4
\* commits of one throttled edit handler in one run
MaxCommits == 3
\* Date.now() in the browser when the page is mounted (ms)
ClientStart == 1000
\* the browser's clock moves in steps of TickMs, MaxTicks times in one run
TickMs == 40
MaxTicks == 8
\* events of the user interface the pages of a room handle in one run
MaxPageEvents == 4
\* runs of one character in a session name
MaxRuns == 2

(***************************************************************************)
(* Constants of the program.                                               *)
(***************************************************************************)
ROOM_TTL_MINUTES == 60
ROOM_CREATION_THROTTLE_MS == 3000
ROOM_TTL_MS == ROOM_TTL_MINUTES * 60 * 1000
\* passcodeParam.slice(0, 128)
PasscodeMaxLen == 128
\* /^[a-zA-Z0-9-_]{3,64}$/
RoomIdMinLen == 3
RoomIdMaxLen == 64

\* An optional string (undefined, or a string) is the empty tuple or the
\* one-element tuple of the string.
None == <<>>

Some(str) == <<str>>

\* cleanupTimer: null
NoTimer == 0

(***************************************************************************)
(* Strings are sequences of one-character strings.                         *)
(***************************************************************************)
Rep(c, n) == [i \in 1..n |-> c]

Min(a, b) == IF a < b THEN a ELSE b

\* the character class [a-zA-Z0-9-_]
RoomIdChars ==
  { "a","b","c","d","e","f","g","h","i","j","k","l","m",
    "n","o","p","q","r","s","t","u","v","w","x","y","z",
    "A","B","C","D","E","F","G","H","I","J","K","L","M",
    "N","O","P","Q","R","S","T","U","V","W","X","Y","Z",
    "0","1","2","3","4","5","6","7","8","9","-","_" }

\* /^[a-zA-Z0-9-_]{3,64}$/.test(roomId)
ValidRoomId(id) ==
  /\ Len(id) >= RoomIdMinLen
  /\ Len(id) <= RoomIdMaxLen
  /\ \A i \in 1..Len(id) : id[i] \in RoomIdChars

\* A path segment is a sequence of tokens: a plain character, a percent
\* escape ("%20") or a lone "%", which is no escape at all.
MalformedEscape(tok) == tok = "%"

DecodeToken(tok) ==
  CASE tok = "%20" -> " "
    [] tok = "%2E" -> "."
    [] OTHER -> tok

\* decodeURIComponent: throws URIError on a malformed escape
DecodeThrows(seg) == \E i \in 1..Len(seg) : MalformedEscape(seg[i])

decodeURIComponent(seg) == [i \in 1..Len(seg) |-> DecodeToken(seg[i])]

RECURSIVE TrimStart(_)
TrimStart(s) ==
  IF s # <<>> /\ Head(s) = " " THEN TrimStart(Tail(s)) ELSE s

RECURSIVE TrimEnd(_)
TrimEnd(s) ==
  IF s # <<>> /\ s[Len(s)] = " " THEN TrimEnd(SubSeq(s, 1, Len(s) - 1)) ELSE s

\* String.prototype.trim
Trim(s) == TrimEnd(TrimStart(s))

\* passcodeParam ? passcodeParam.slice(0, 128) : undefined
\* (a missing parameter and the empty string are both falsy)
SanitizePasscode(k) ==
  IF k = None \/ k = Some(<<>>) THEN None
  ELSE Some(SubSeq(k[1], 1, Min(Len(k[1]), PasscodeMaxLen)))

(***************************************************************************)
(* The state of the server process.                                        *)
(***************************************************************************)
VARIABLES
  rooms,              \* Map roomId -> RoomContext
  yDocs,              \* y-websocket's docs map: roomId -> document
  docs,               \* the documents ever created, with their awareness
  timers,             \* the pending timeouts of the event loop
  timerSeq,           \* timeout handles handed out so far
  roomCreationRate,   \* Map ip -> time of the last room creation
  totalRoomsCreated,  \* the metrics counter
  ctxSeq,             \* RoomContext objects created so far (object identity)
  now,                \* Date.now()
  requests,           \* upgrade requests received so far
  answer,             \* what the handler that ran last answered its socket
  socks,              \* the sockets handed to wss.handleUpgrade for attaching
  running,            \* the process is alive
  lastCreation,       \* history: ip -> time of its last room creation
  detached,           \* history: roomId -> the room as its last connection left it
  logLevel,           \* LOG_LEVEL, the level of the pino logger
  evicted,            \* the room ids of the log lines 'destroying inactive room'
  served              \* what the HTTP endpoint or the shutdown that ran last made

serverVars == << rooms, yDocs, docs, timers, timerSeq, roomCreationRate,
                 totalRoomsCreated, ctxSeq, now, requests, answer, socks,
                 running, lastCreation, detached, logLevel, evicted, served >>

(***************************************************************************)
(* The state of the first Room component (App.tsx): the snapshot history   *)
(* of the drawn layers.                                                    *)
(***************************************************************************)
VARIABLES
  drawnItems,         \* the feature group of the drawn layers
  historyRef,         \* [undoStack, redoStack] of snapshots
  historyState,       \* [canUndo, canRedo], what the buttons show
  historyEvent        \* history: the handler that ran last, the stacks and the
                      \* layers it found

historyVars == << drawnItems, historyRef, historyState, historyEvent >>

(***************************************************************************)
(* The state of one throttled edit handler of RoomPage.tsx, with the view  *)
(* object it is attached to.                                               *)
(***************************************************************************)
VARIABLES
  throttled,          \* [last, timeout, trailing] of the closure of throttle
  clientNow,          \* Date.now() in the browser
  dragged,            \* the geometry of the view object
  committed           \* history: the commits of the handler, [at, geometry]

throttleVars == << throttled, clientNow, dragged, committed >>

(***************************************************************************)
(* The state of RoomPage with its room connection, in every client.        *)
(***************************************************************************)
VARIABLES
  pages,              \* clientId -> the connection, the layers, the selection
  pageEvents          \* the events of the user interface handled so far

pageVars == << pages, pageEvents >>

(***************************************************************************)
(* One feature of RoomPage.tsx on its way between the layer on the map and *)
(* the document: what layerToFeature commits and what is drawn from it.    *)
(***************************************************************************)
VARIABLES
  stored,             \* the feature as it was committed last, if any
  shown,              \* the layer on the map, if any
  rewrite             \* history: the commit that ran last, and what it found

commitVars == << stored, shown, rewrite >>

(***************************************************************************)
(* The presence of a room: the awareness of each client's provider, the    *)
(* copy of it useRoomConnection keeps, and the participants RoomPage shows.*)
(***************************************************************************)
VARIABLES
  awareness,          \* clientId -> provider.awareness: [live, states]
  awarenessStates,    \* clientId -> the React state of useRoomConnection
  participants,       \* clientId -> the list of the participants panel
  presenceEvent       \* history: the handler that ran last, and its client

presenceVars == << awareness, awarenessStates, participants, presenceEvent >>

(***************************************************************************)
(* The state of the first server (server/src): the registry of the rooms   *)
(* and the interval of its garbage collector.                              *)
(***************************************************************************)
VARIABLES
  registry,           \* rooms of room-registry.ts: roomId -> RoomInfo
  registryNow,        \* Date.now() in that process
  nextSweep,          \* when the interval of the garbage collector is due
  swept               \* history: the sweep that ran last, and what it found

registryStateVars == << registry, registryNow, nextSweep, swept >>

(***************************************************************************)
(* The re-entrancy guards: the flag of RoomPage.tsx under which the        *)
(* reconciliation removes layers, and the flag of the Room component under *)
(* which a snapshot is restored.                                           *)
(***************************************************************************)
VARIABLES
  suppressLocalEventsRef,  \* clientId -> suppressLocalEventsRef.current
  isRestoringRef           \* isRestoringRef.current

guardVars == << suppressLocalEventsRef, isRestoringRef >>

(***************************************************************************)
(* The home pages: the session name the user has typed, and the room code  *)
(* the page has navigated to.                                              *)
(***************************************************************************)
VARIABLES
  sessionName,        \* the state of the input of HomePage
  roomCode            \* /r/<slug> of the last navigation: [by, slug], or none

homeVars == << sessionName, roomCode >>

\* the components beside the three above
restVars == << commitVars, presenceVars, registryStateVars, guardVars, homeVars >>

browserVars == << historyVars, throttleVars, pageVars, restVars >>

vars == << serverVars, browserVars >>

\* what the handlers of one component leave alone
notHistoryVars == << serverVars, throttleVars, pageVars, restVars >>
notThrottleVars == << serverVars, historyVars, pageVars, restVars >>
notPageVars == << serverVars, historyVars, throttleVars, restVars >>
notCommitVars == << serverVars, historyVars, throttleVars, pageVars, presenceVars,
                   registryStateVars, guardVars, homeVars >>
notPresenceVars == << serverVars, historyVars, throttleVars, pageVars, commitVars,
                     registryStateVars, guardVars, homeVars >>
notRegistryVars == << serverVars, historyVars, throttleVars, pageVars, commitVars,
                     presenceVars, guardVars, homeVars >>
notHomeVars == << serverVars, historyVars, throttleVars, pageVars, commitVars,
                 presenceVars, registryStateVars, guardVars >>
notGuardedPageVars == << serverVars, historyVars, throttleVars, commitVars,
                        presenceVars, registryStateVars, isRestoringRef, homeVars >>
notGuardedHistoryVars == << serverVars, throttleVars, pages, commitVars,
                           presenceVars, registryStateVars, suppressLocalEventsRef, homeVars >>

\* the module-level state the functions of index.ts work on
Srv ==
  [ rooms |-> rooms, yDocs |-> yDocs, docs |-> docs, timers |-> timers,
    timerSeq |-> timerSeq, roomCreationRate |-> roomCreationRate,
    totalRoomsCreated |-> totalRoomsCreated, ctxSeq |-> ctxSeq ]

Install(s) ==
  /\ rooms' = s.rooms
  /\ yDocs' = s.yDocs
  /\ docs' = s.docs
  /\ timers' = s.timers
  /\ timerSeq' = s.timerSeq
  /\ roomCreationRate' = s.roomCreationRate
  /\ totalRoomsCreated' = s.totalRoomsCreated
  /\ ctxSeq' = s.ctxSeq

\* Map.has / Map.set / Map.delete
Has(m, key) == key \in DOMAIN m

MapSet(m, key, v) == [x \in DOMAIN m \cup {key} |-> IF x = key THEN v ELSE m[x]]

MapDelete(m, key) == [x \in DOMAIN m \ {key} |-> m[x]]

EmptyMap == [x \in {} |-> 0]

\* a fresh Y.Doc with its Awareness; each is "live", "destroyed", or
\* "threw" once its destroy() has thrown (the warning of cleanupRoom's log)
NewDoc ==
  [ features |-> {}, presence |-> {}, doc |-> "live", awareness |-> "live" ]

\* x.destroy() inside try/catch
Destroy(throws) == IF throws THEN "threw" ELSE "destroyed"

\* clearTimeout that clears the timeouts of every room
clearTimeoutAll(s, h) == [s EXCEPT !.timers = {}]

\* clearTimeout(handle)
clearTimeout(s, h) == [s EXCEPT !.timers = {t \in @ : t.id # h}]

\* cleanupRoom with rooms.delete and yDocs.delete inside the try blocks: a
\* destroy() that throws leaves the room registered
cleanupRoomGivesUp(s, roomId, awThrows, docThrows) ==
  IF ~Has(s.rooms, roomId) THEN s
  ELSE LET d == s.rooms[roomId].doc
           torn == [s EXCEPT
                      !.docs = [@ EXCEPT ![d] =
                                  [@ EXCEPT !.awareness = Destroy(awThrows),
                                            !.doc = Destroy(docThrows)]]]
       IN IF awThrows \/ docThrows THEN torn
          ELSE [torn EXCEPT
                  !.rooms = MapDelete(@, roomId),
                  !.yDocs = IF Has(@, roomId) THEN MapDelete(@, roomId) ELSE @]

\* cleanupRoom without the deletion from y-websocket's docs map
cleanupRoomKeepsDoc(s, roomId, awThrows, docThrows) ==
  IF ~Has(s.rooms, roomId) THEN s
  ELSE [s EXCEPT
          !.docs = [@ EXCEPT ![s.rooms[roomId].doc] =
                      [@ EXCEPT !.awareness = Destroy(awThrows),
                                !.doc = Destroy(docThrows)]],
          !.rooms = MapDelete(@, roomId)]

\* cleanupRoom(roomId); awThrows / docThrows: awareness.destroy() /
\* doc.destroy() throws.  (context.cleanupTimer = null is an assignment to
\* the context the function then drops.)
cleanupRoom(s, roomId, awThrows, docThrows) ==
  IF ~Has(s.rooms, roomId) THEN s
  ELSE LET context == s.rooms[roomId]
           d == context.doc
       IN [s EXCEPT
             !.docs = [@ EXCEPT ![d] =
                         [@ EXCEPT !.awareness = Destroy(awThrows),
                                   !.doc = Destroy(docThrows)]],
             !.rooms = MapDelete(@, roomId),
             !.yDocs = IF Has(@, roomId) THEN MapDelete(@, roomId) ELSE @]

\* scheduleCleanup without the setTimeout call
scheduleCleanupUnarmed(s, roomId, t) == s

\* scheduleCleanup(roomId) at time t
scheduleCleanup(s, roomId, t) ==
  IF ~Has(s.rooms, roomId) THEN s
  ELSE LET context == s.rooms[roomId]
           s1 == IF context.cleanupTimer # NoTimer
                 THEN clearTimeout(s, context.cleanupTimer)
                 ELSE s
           h == s.timerSeq + 1
       IN [s1 EXCEPT
             !.timers = @ \cup {[id |-> h, roomId |-> roomId,
                                 due |-> t + ROOM_TTL_MS, ctx |-> context.ctx]},
             !.timerSeq = h,
             !.rooms = [@ EXCEPT ![roomId].cleanupTimer = h]]

\* extractIp(req): the first x-forwarded-for entry, else the remote address
extractIp(req) ==
  IF req.forwarded # <<>> THEN Head(req.forwarded) ELSE req.remote

\* roomCreationRate.get(ip) ?? 0
RateGet(s, ip) ==
  IF Has(s.roomCreationRate, ip) THEN s.roomCreationRate[ip] ELSE 0

\* canCreateRoom with roomCreationRate.set before the comparison's return
canCreateRoomStamps(s, ip, t) ==
  [ok |-> ~(t - RateGet(s, ip) < ROOM_CREATION_THROTTLE_MS),
   srv |-> [s EXCEPT !.roomCreationRate = MapSet(@, ip, t)]]

\* canCreateRoom without roomCreationRate.set
canCreateRoomForgets(s, ip, t) ==
  [ok |-> ~(t - RateGet(s, ip) < ROOM_CREATION_THROTTLE_MS), srv |-> s]

\* canCreateRoom(ip) at time t: the answer and the state it leaves
canCreateRoom(s, ip, t) ==
  IF t - RateGet(s, ip) < ROOM_CREATION_THROTTLE_MS
  THEN [ok |-> FALSE, srv |-> s]
  ELSE [ok |-> TRUE,
        srv |-> [s EXCEPT !.roomCreationRate = MapSet(@, ip, t)]]

\* getYDoc(roomId) of y-websocket: the document of the docs map, created
\* when the map has none
getYDoc(s, roomId) ==
  IF Has(s.yDocs, roomId) THEN s
  ELSE [s EXCEPT !.docs = Append(@, NewDoc),
                 !.yDocs = MapSet(@, roomId, Len(s.docs) + 1)]

\* ensureRoomContext without totalRoomsCreated += 1
ensureRoomContextUncounted(s, roomId, passcode, t) ==
  IF Has(s.rooms, roomId) THEN s
  ELSE LET s1 == getYDoc(s, roomId)
       IN [s1 EXCEPT
             !.rooms = MapSet(@, roomId,
                              [ ctx |-> s.ctxSeq + 1, doc |-> s1.yDocs[roomId],
                                connections |-> {}, createdAt |-> t,
                                lastActive |-> t, passcode |-> passcode,
                                cleanupTimer |-> NoTimer ]),
             !.ctxSeq = @ + 1]

\* ensureRoomContext(roomId, passcode) at time t
ensureRoomContext(s, roomId, passcode, t) ==
  IF Has(s.rooms, roomId) THEN s
  ELSE LET s1 == getYDoc(s, roomId)
           context == [ ctx |-> s.ctxSeq + 1,
                        doc |-> s1.yDocs[roomId],
                        connections |-> {},
                        createdAt |-> t,
                        lastActive |-> t,
                        passcode |-> passcode,
                        cleanupTimer |-> NoTimer ]
       IN [s1 EXCEPT !.rooms = MapSet(@, roomId, context),
                     !.totalRoomsCreated = @ + 1,
                     !.ctxSeq = @ + 1]

(***************************************************************************)
(* The handlers.                                                           *)
(***************************************************************************)
\* normalizedWsPath.split('/').filter(Boolean) for WS_PATH = '/ws'
wsPathSegments == << <<"w", "s">> >>

\* wsPathSegments.every((segment, index) => pathSegments[index] === segment)
pathMatches(path) ==
  \A i \in 1..Len(wsPathSegments) :
    i <= Len(path) /\ path[i] = wsPathSegments[i]

\* what the gateway answers: an HTTP status written by abortUpgrade, the
\* close code of the passcode refusal, or the handshake going ahead
BadRequest == 400
NotFound == 404
RateLimit == 429
PasscodeRequired == 4003
RoomMissing == 1011
Switching == 101

Answer(s, code, roomId) ==
  [srv |-> s, code |-> code, roomId |-> roomId, threw |-> FALSE]

\* the passcode branches with the adoption tested first and unguarded
passcodeCheckAdoptsFirst(context, sanitizedPasscode) ==
  IF sanitizedPasscode # None THEN "adopt"
  ELSE IF context.passcode # None THEN "refuse"
  ELSE "join"

\* the passcode branches of the gateway for a room that exists:
\*   context.passcode && context.passcode !== sanitizedPasscode -> refuse
\*   !context.passcode && sanitizedPasscode                     -> adopt
passcodeCheck(context, sanitizedPasscode) ==
  IF context.passcode # None /\ context.passcode # sanitizedPasscode
  THEN "refuse"
  ELSE IF context.passcode = None /\ sanitizedPasscode # None
  THEN "adopt"
  ELSE "join"

\* a lookup that never finds the room
roomKnownNever(s, roomId) == FALSE

\* rooms.get(roomId) names a context
roomKnown(s, roomId) == Has(s.rooms, roomId)

\* the gateway with canCreateRoom(ip) asked before rooms.get(roomId)
admitThrottlesJoins(s, req, roomId, t) ==
  LET sanitizedPasscode == SanitizePasscode(req.k)
      can == canCreateRoom(s, extractIp(req), t)
  IN IF ~can.ok THEN Answer(can.srv, RateLimit, roomId)
     ELSE IF ~roomKnown(s, roomId)
     THEN Answer(ensureRoomContext(can.srv, roomId, sanitizedPasscode, t),
                 Switching, roomId)
     ELSE Answer(can.srv, Switching, roomId)

\* the room part of server.on('upgrade'), from the passcode parameter on
admit(s, req, roomId, t) ==
  LET sanitizedPasscode == SanitizePasscode(req.k)
      ip == extractIp(req)
  IN IF ~roomKnown(s, roomId)
     THEN LET can == canCreateRoom(s, ip, t)
          IN IF ~can.ok
             THEN Answer(can.srv, RateLimit, roomId)
             ELSE Answer(ensureRoomContext(can.srv, roomId, sanitizedPasscode, t),
                         Switching, roomId)
     ELSE LET check == passcodeCheck(s.rooms[roomId], sanitizedPasscode)
          IN IF check = "refuse"
             THEN Answer(s, PasscodeRequired, roomId)
             ELSE IF check = "adopt"
             THEN Answer([s EXCEPT !.rooms[roomId].passcode = sanitizedPasscode],
                         Switching, roomId)
             ELSE Answer(s, Switching, roomId)

\* server.on('upgrade') up to the call of wss.handleUpgrade, at time t
upgrade(s, req, t) ==
  IF req.host = "none" THEN Answer(s, BadRequest, <<>>)
  ELSE IF ~pathMatches(req.path) THEN Answer(s, NotFound, <<>>)
  ELSE IF Len(req.path) <= Len(wsPathSegments) THEN Answer(s, BadRequest, <<>>)
  ELSE LET roomSegment == req.path[Len(wsPathSegments) + 1]
       IN IF DecodeThrows(roomSegment)
          THEN [srv |-> s, code |-> 0, roomId |-> <<>>, threw |-> TRUE]
          ELSE LET roomId == Trim(decodeURIComponent(roomSegment))
               IN IF ~ValidRoomId(roomId) THEN Answer(s, BadRequest, <<>>)
                  ELSE admit(s, req, roomId, t)

\* the callback without clearTimeout(room.cleanupTimer)
attachKeepsTimer(s, roomId, ws, t) ==
  IF ~Has(s.rooms, roomId) THEN s
  ELSE [s EXCEPT !.rooms[roomId].connections = @ \cup {ws},
                 !.rooms[roomId].lastActive = t]

\* the callback of wss.handleUpgrade up to setupWSConnection, at time t
attach(s, roomId, ws, t) ==
  IF ~Has(s.rooms, roomId) THEN s
  ELSE LET room == s.rooms[roomId]
           s1 == [s EXCEPT !.rooms[roomId].connections = @ \cup {ws},
                           !.rooms[roomId].lastActive = t]
       IN IF room.cleanupTimer # NoTimer
          THEN [clearTimeout(s1, room.cleanupTimer)
                  EXCEPT !.rooms[roomId].cleanupTimer = NoTimer]
          ELSE s1

\* ws.on('close') without the test of connections.size
onCloseAlwaysSchedules(s, roomId, ws, t) ==
  IF ~Has(s.rooms, roomId) THEN s
  ELSE scheduleCleanup([s EXCEPT !.rooms[roomId].connections = @ \ {ws},
                                 !.rooms[roomId].lastActive = t],
                       roomId, t)

\* ws.on('close') without the call of scheduleCleanup
onCloseNeverSchedules(s, roomId, ws, t) ==
  IF ~Has(s.rooms, roomId) THEN s
  ELSE [s EXCEPT !.rooms[roomId].connections = @ \ {ws},
                 !.rooms[roomId].lastActive = t]

\* ws.on('close') at time t
onClose(s, roomId, ws, t) ==
  IF ~Has(s.rooms, roomId) THEN s
  ELSE LET s1 == [s EXCEPT !.rooms[roomId].connections = @ \ {ws},
                           !.rooms[roomId].lastActive = t]
       IN IF s1.rooms[roomId].connections = {}
          THEN scheduleCleanup(s1, roomId, t)
          ELSE s1

\* y-websocket's own close handler (installed by setupWSConnection before
\* ws.on('close')): the awareness states of the connection are removed
closeConn(s, d, ws) == [s EXCEPT !.docs[d].presence = @ \ {ws}]

\* the body of GET /health; process.uptime() is the time since the start
health(s, t) ==
  [ status |-> "ok",
    rooms |-> Cardinality(DOMAIN s.rooms),
    uptime |-> t - StartTime ]

\* the three lines of GET /metrics
metrics(s) ==
  [ rooms_active |-> Cardinality(DOMAIN s.rooms),
    rooms_total_created |-> s.totalRoomsCreated,
    rooms_waiting_cleanup |->
      Cardinality({ r \in DOMAIN s.rooms : s.rooms[r].cleanupTimer # NoTimer }) ]

\* rooms.forEach((_value, key) => cleanupRoom(key)); awFail and docFail are
\* the rooms whose awareness.destroy() and doc.destroy() throw
RECURSIVE cleanupEach(_, _, _, _)
cleanupEach(s, keys, awFail, docFail) ==
  IF keys = {} THEN s
  ELSE LET key == CHOOSE r \in keys : TRUE
       IN cleanupEach(cleanupRoom(s, key, key \in awFail, key \in docFail),
                      keys \ {key}, awFail, docFail)

\* the callback of server.close that passes over the rooms with connections
shutdownIdleOnly(s, awFail, docFail) ==
  cleanupEach(s, { r \in DOMAIN s.rooms : s.rooms[r].connections = {} },
              awFail, docFail)

\* the callback of server.close in shutdown, up to process.exit(0)
shutdown(s, awFail, docFail) == cleanupEach(s, DOMAIN s.rooms, awFail, docFail)

(***************************************************************************)
(* The requests of the environment.                                        *)
(***************************************************************************)
WsSeg == <<"w", "s">>

RoomSegs == { <<"a", "b", "c">>, <<"x", "y", "z">> }

\* the k parameter: absent, empty, short, 128 characters, 129 characters
Keys ==
  { None, Some(<<>>), Some(<<"s">>), Some(Rep("s", PasscodeMaxLen)),
    Some(Rep("s", PasscodeMaxLen + 1)) }

\* a direct client, and a client behind a proxy that names it
Origins ==
  { [forwarded |-> <<>>, remote |-> "ip1"],
    [forwarded |-> <<"ip2", "ip9">>, remote |-> "ip9"] }

NoRequest ==
  [host |-> "", path |-> <<>>, k |-> None, forwarded |-> <<>>, remote |-> ""]

NoAnswer == [code |-> 0, roomId |-> <<>>, req |-> NoRequest]

\* no HTTP request has been served
NoResponse == [kind |-> "none"]

Request(host, path, k, o) ==
  [host |-> host, path |-> path, k |-> k,
   forwarded |-> o.forwarded, remote |-> o.remote]

Direct == [forwarded |-> <<>>, remote |-> "ip1"]

Proxied == [forwarded |-> <<"ip2", "ip9">>, remote |-> "ip9"]

\* every key on one room from one origin; both rooms from both origins
RoomRequests ==
  { Request("ok", <<WsSeg, <<"a", "b", "c">> >>, k, Direct) : k \in Keys }
    \cup { Request("ok", <<WsSeg, seg>>, None, o) : seg \in RoomSegs, o \in Origins }

\* requests the gateway turns away whatever the registry holds, a room id
\* that needs decoding and trimming, and one whose decoding throws
OddRequests ==
  { Request("none", <<WsSeg, <<"a", "b", "c">> >>, None, Direct),
    Request("ok", << <<"a", "p", "i">>, <<"a", "b", "c">> >>, None, Direct),
    Request("ok", << WsSeg >>, None, Direct),
    Request("ok", << WsSeg, <<"a", "b">> >>, None, Direct),
    Request("ok", << WsSeg, <<"a", "%2E", "c">> >>, None, Direct),
    Request("ok", << WsSeg, Rep("a", RoomIdMaxLen + 1) >>, None, Direct),
    Request("ok", << WsSeg, <<"%20", "a", "b", "c">>, <<"t">> >>, None, Direct),
    Request("ok", << WsSeg, <<"a", "b", "%">> >>, None, Direct) }

Requests == RoomRequests \cup OddRequests

Features == { "f1" }

Gaps == { ShortGap, LongGap }

(***************************************************************************)
(* The actions.                                                            *)
(***************************************************************************)
\* what a room holds: its context, document content, presence and passcode
Snapshot(s, roomId) ==
  LET context == s.rooms[roomId]
  IN [ ctx |-> context.ctx, doc |-> context.doc,
       features |-> s.docs[context.doc].features,
       presence |-> s.docs[context.doc].presence,
       passcode |-> context.passcode ]

\* the history of detached rooms after a handler has left state s: a room
\* stays detached while its context is registered without a connection
StillDetached(det, s) ==
  LET keep == { r \in DOMAIN det :
                  /\ Has(s.rooms, r)
                  /\ s.rooms[r].ctx = det[r].ctx
                  /\ s.rooms[r].connections = {} }
  IN [r \in keep |-> det[r]]

ServerStart(level) ==
  /\ logLevel = level
  /\ rooms = EmptyMap
  /\ yDocs = EmptyMap
  /\ docs = <<>>
  /\ timers = {}
  /\ timerSeq = 0
  /\ roomCreationRate = EmptyMap
  /\ totalRoomsCreated = 0
  /\ ctxSeq = 0
  /\ now = StartTime
  /\ requests = 0
  /\ answer = NoAnswer
  /\ socks = <<>>
  /\ running = TRUE
  /\ lastCreation = EmptyMap
  /\ detached = EmptyMap
  /\ evicted = {}
  /\ served = NoResponse

\* logger.info({ roomId }, 'destroying inactive room'), for each of roomIds:
\* written when LOG_LEVEL lets the level info through
logInfo(log, roomIds) == IF logLevel = "info" THEN log \cup roomIds ELSE log

\* a socket whose handshake is under way
Pending(roomId) == [state |-> "pending", room |-> roomId, doc |-> 0]

\* a socket no event will come from any more
Gone == [state |-> "gone", room |-> <<>>, doc |-> 0]

\* server.on('upgrade'): the gateway, for a request that arrives gap ms
\* after the request before it.  An uncaught URIError ends the process.
Upgrade(req, gap) ==
  /\ running
  /\ requests < MaxRequests
  /\ requests' = requests + 1
  /\ now' = IF requests = 0 THEN now ELSE now + gap
  /\ LET r == upgrade(Srv, req, now')
     IN /\ Install(r.srv)
        /\ running' = ~r.threw
        /\ answer' = [code |-> r.code, roomId |-> r.roomId, req |-> req]
        /\ socks' = IF r.code = Switching
                    THEN Append(socks, Pending(r.roomId))
                    ELSE socks
        /\ lastCreation' =
             IF r.srv.ctxSeq # ctxSeq
             THEN MapSet(lastCreation, extractIp(req), now')
             ELSE lastCreation
  /\ UNCHANGED detached
  /\ UNCHANGED << logLevel, evicted, served, browserVars >>

\* the callback that makes the context it does not find
AttachCallbackRevives(ws) ==
  /\ running
  /\ ws \in DOMAIN socks
  /\ socks[ws].state = "pending"
  /\ LET roomId == socks[ws].room
         s == attach(ensureRoomContext(Srv, roomId, None, now), roomId, ws, now)
     IN /\ Install(s)
        /\ detached' = StillDetached(detached, s)
        /\ socks' = [socks EXCEPT ![ws].state = "open", ![ws].doc = s.yDocs[roomId]]
        /\ answer' = NoAnswer
  /\ UNCHANGED << now, requests, running, lastCreation >>
  /\ UNCHANGED << logLevel, evicted, served, browserVars >>

\* the callback of wss.handleUpgrade for a request the gateway let through
AttachCallback(ws) ==
  /\ running
  /\ ws \in DOMAIN socks
  /\ socks[ws].state = "pending"
  /\ LET roomId == socks[ws].room
     IN IF ~Has(rooms, roomId)
        THEN /\ socks' = [socks EXCEPT ![ws] = Gone]
             /\ answer' = [code |-> RoomMissing, roomId |-> roomId,
                            req |-> NoRequest]
             /\ UNCHANGED << rooms, yDocs, docs, timers, timerSeq,
                             roomCreationRate, totalRoomsCreated, ctxSeq,
                             detached >>
        ELSE /\ Install(attach(Srv, roomId, ws, now))
             /\ detached' = StillDetached(detached, attach(Srv, roomId, ws, now))
             /\ socks' = [socks EXCEPT ![ws].state = "open",
                                       ![ws].doc = yDocs[roomId]]
             /\ answer' = NoAnswer
  /\ UNCHANGED << now, requests, running, lastCreation >>
  /\ UNCHANGED << logLevel, evicted, served, browserVars >>

\* the handshake fails inside wss.handleUpgrade: the callback never runs
HandshakeFails(ws) ==
  /\ running
  /\ ws \in DOMAIN socks
  /\ socks[ws].state = "pending"
  /\ socks' = [socks EXCEPT ![ws] = Gone]
  /\ UNCHANGED << rooms, yDocs, docs, timers, timerSeq, roomCreationRate,
                  totalRoomsCreated, ctxSeq, now, requests, running,
                  lastCreation, detached >>
  /\ answer' = NoAnswer
  /\ UNCHANGED << logLevel, evicted, served, browserVars >>

\* the 'close' event of an attached socket
Close(ws) ==
  /\ running
  /\ ws \in DOMAIN socks
  /\ socks[ws].state = "open"
  /\ LET roomId == socks[ws].room
         s == onClose(closeConn(Srv, socks[ws].doc, ws), roomId, ws, now)
     IN /\ Install(s)
        /\ detached' = IF Has(s.rooms, roomId) /\ s.rooms[roomId].connections = {}
                       THEN MapSet(detached, roomId, Snapshot(s, roomId))
                       ELSE detached
  /\ socks' = [socks EXCEPT ![ws] = Gone]
  /\ answer' = NoAnswer
  /\ UNCHANGED << now, requests, running, lastCreation >>
  /\ UNCHANGED << logLevel, evicted, served, browserVars >>

\* a sync message of an attached client changes the document
ClientEdit(ws, f) ==
  /\ running
  /\ ws \in DOMAIN socks
  /\ socks[ws].state = "open"
  /\ docs' = [docs EXCEPT ![socks[ws].doc].features =
                IF f \in @ THEN @ \ {f} ELSE @ \cup {f}]
  /\ UNCHANGED << rooms, yDocs, timers, timerSeq, roomCreationRate,
                  totalRoomsCreated, ctxSeq, now, requests, socks,
                  running, lastCreation, detached >>
  /\ answer' = NoAnswer
  /\ UNCHANGED << logLevel, evicted, served, browserVars >>

\* an awareness message of an attached client publishes its presence
ClientPresence(ws) ==
  /\ running
  /\ ws \in DOMAIN socks
  /\ socks[ws].state = "open"
  /\ ws \notin docs[socks[ws].doc].presence
  /\ docs' = [docs EXCEPT ![socks[ws].doc].presence = @ \cup {ws}]
  /\ UNCHANGED << rooms, yDocs, timers, timerSeq, roomCreationRate,
                  totalRoomsCreated, ctxSeq, now, requests, socks,
                  running, lastCreation, detached >>
  /\ answer' = NoAnswer
  /\ UNCHANGED << logLevel, evicted, served, browserVars >>

\* a due timeout runs its callback, () => cleanupRoom(roomId)
TimerFire(tm, awThrows, docThrows) ==
  /\ running
  /\ tm \in timers
  /\ now >= tm.due
  /\ LET s == cleanupRoom([Srv EXCEPT !.timers = @ \ {tm}], tm.roomId,
                          awThrows, docThrows)
     IN /\ Install(s)
        /\ detached' = StillDetached(detached, s)
        /\ evicted' = IF Has(rooms, tm.roomId)
                      THEN logInfo(evicted, { tm.roomId })
                      ELSE evicted
  /\ answer' = NoAnswer
  /\ UNCHANGED << now, requests, socks, running, lastCreation >>
  /\ UNCHANGED << logLevel, served, browserVars >>

\* the TTL passes while a timeout is waiting
TtlElapses ==
  /\ running
  /\ \E tm \in timers : tm.due > now
  /\ now' = now + ROOM_TTL_MS
  /\ UNCHANGED << rooms, yDocs, docs, timers, timerSeq, roomCreationRate,
                  totalRoomsCreated, ctxSeq, requests, socks, running,
                  lastCreation, detached >>
  /\ answer' = NoAnswer
  /\ UNCHANGED << logLevel, evicted, served, browserVars >>

\* what neither an HTTP endpoint nor the exit of the process changes
registryVars == << rooms, yDocs, docs, timerSeq, roomCreationRate,
                   totalRoomsCreated, ctxSeq >>

\* GET /health
GetHealth ==
  /\ running
  /\ served' = [kind |-> "health", body |-> health(Srv, now)]
  /\ UNCHANGED << registryVars, timers, now, requests, answer, socks, running,
                  lastCreation, detached, logLevel, evicted >>
  /\ UNCHANGED browserVars

\* GET /metrics
GetMetrics ==
  /\ running
  /\ served' = [kind |-> "metrics", body |-> metrics(Srv)]
  /\ UNCHANGED << registryVars, timers, now, requests, answer, socks, running,
                  lastCreation, detached, logLevel, evicted >>
  /\ UNCHANGED browserVars

\* SIGTERM or SIGINT: the callback of server.close evicts every room and
\* process.exit(0) ends the event loop with its timeouts and sockets
Shutdown(awFail, docFail) ==
  /\ running
  /\ Install([shutdown(Srv, awFail, docFail) EXCEPT !.timers = {}])
  /\ running' = FALSE
  /\ served' = [kind |-> "exit", code |-> 0, found |-> rooms]
  /\ socks' = [ws \in DOMAIN socks |-> Gone]
  /\ detached' = EmptyMap
  /\ answer' = NoAnswer
  /\ evicted' = logInfo(evicted, DOMAIN rooms)
  /\ UNCHANGED << now, requests, lastCreation, logLevel >>
  /\ UNCHANGED browserVars

(***************************************************************************)
(* Numbers of the browser side.  A coordinate is a whole number of 1e-7    *)
(* degrees, so that six decimals are a multiple of ten.                    *)
(***************************************************************************)
\* Number(value.toFixed(6)), rounding to one more decimal than six
roundCoordinateUp(value) == ((value \div 10) + 1) * 10

\* Number(value.toFixed(6)): toFixed rounds a half away from zero
roundCoordinate(value) ==
  IF value >= 0
  THEN ((value + 5) \div 10) * 10
  ELSE 0 - (((0 - value) + 5) \div 10) * 10

\* L.Util.formatNum at the precision of toGeoJSON, six decimals: Math.round
\* rounds a half up
formatNum(value) == ((value + 5) \div 10) * 10

(***************************************************************************)
(* App.tsx, the Room component: undo and redo over snapshots of the drawn  *)
(* layers.                                                                 *)
(***************************************************************************)
\* the places a layer of the Room component is drawn at or dragged to
Places == { 14, 20 }

\* the layers the controls of the Room component draw
DrawnLayers == { [shape |-> s, at |-> p] : s \in { "Marker", "Polyline" }, p \in Places }

\* drawnItems.toGeoJSON(): the feature collection of the drawn layers
toGeoJSON(drawn) ==
  { [type |-> IF l.shape = "Marker" THEN "Point" ELSE "LineString",
     coordinates |-> formatNum(l.at)] : l \in drawn }

\* leaflet.geoJSON(snapshot): the layers of a feature collection
geoJSON(snapshot) ==
  { [shape |-> IF f.type = "Point" THEN "Marker" ELSE "Polyline",
     at |-> f.coordinates] : f \in snapshot }

updateHistoryState(history) ==
  [canUndo |-> Len(history.undoStack) > 1, canRedo |-> Len(history.redoStack) > 0]

captureSnapshotKeepsRedo(history, drawn, isRestoring) ==
  IF isRestoring THEN history
  ELSE [undoStack |-> Append(history.undoStack, toGeoJSON(drawn)),
        redoStack |-> history.redoStack]

\* captureSnapshot: a snapshot of the drawn layers is pushed and the redo
\* stack emptied, unless a snapshot is being restored
captureSnapshot(history, drawn, isRestoring) ==
  IF isRestoring THEN history
  ELSE [undoStack |-> Append(history.undoStack, toGeoJSON(drawn)),
        redoStack |-> <<>>]

\* restoreSnapshot: the drawn layers are cleared and rebuilt from the
\* snapshot, while isRestoringRef is set
restoreSnapshot(snapshot) == geoJSON(snapshot)

Front(s) == SubSeq(s, 1, Len(s) - 1)
Last(s) == s[Len(s)]

\* handleUndo, on the history and the drawn layers
handleUndo(history, drawn) ==
  IF Len(history.undoStack) <= 1
  THEN [history |-> history, drawn |-> drawn]
  ELSE LET current == Last(history.undoStack)
           popped == [undoStack |-> Front(history.undoStack),
                      redoStack |-> Append(history.redoStack, current)]
           restored == restoreSnapshot(Last(popped.undoStack))
       IN [history |-> captureSnapshot(popped, restored, TRUE), drawn |-> restored]

\* handleRedo, on the history and the drawn layers
handleRedo(history, drawn) ==
  IF Len(history.redoStack) = 0
  THEN [history |-> history, drawn |-> drawn]
  ELSE LET snapshot == Last(history.redoStack)
           popped == [undoStack |-> Append(history.undoStack, snapshot),
                      redoStack |-> Front(history.redoStack)]
           restored == restoreSnapshot(snapshot)
       IN [history |-> captureSnapshot(popped, restored, TRUE), drawn |-> restored]

\* the effect mounts the map: nothing drawn, one snapshot of it
HistoryInit ==
  /\ drawnItems = {}
  /\ historyRef = [undoStack |-> << toGeoJSON({}) >>, redoStack |-> <<>>]
  /\ historyState = updateHistoryState(historyRef)
  /\ historyEvent = [kind |-> "mount", before |-> historyRef, layers |-> drawnItems]

\* what the user does to the drawn layers: draws one, removes one, drags
\* one to another place, or ends drawing without a layer
LayerChanges(drawn) ==
  { drawn \cup {l} : l \in DrawnLayers \ drawn }
    \cup { drawn \ {l} : l \in drawn }
    \cup { (drawn \ {l}) \cup {[l EXCEPT !.at = p]} : l \in drawn, p \in Places }
    \cup { drawn }

\* pm:create, pm:remove, pm:drawend, pm:edit, pm:dragend: handleLayerChange
LayerChange(drawn) ==
  /\ Len(historyRef.undoStack) < MaxSnapshots
  /\ drawnItems' = drawn
  /\ historyRef' = captureSnapshot(historyRef, drawn, FALSE)
  /\ historyState' = updateHistoryState(historyRef')
  /\ historyEvent' = [kind |-> "change", before |-> historyRef, layers |-> drawnItems]
  /\ UNCHANGED notHistoryVars

\* the undo button or its shortcut
HandleUndo ==
  /\ LET r == handleUndo(historyRef, drawnItems)
     IN /\ historyRef' = r.history
        /\ drawnItems' = r.drawn
  /\ historyState' = updateHistoryState(historyRef')
  /\ historyEvent' = [kind |-> "undo", before |-> historyRef, layers |-> drawnItems]
  /\ UNCHANGED notHistoryVars

\* the redo button or its shortcut
HandleRedo ==
  /\ LET r == handleRedo(historyRef, drawnItems)
     IN /\ historyRef' = r.history
        /\ drawnItems' = r.drawn
  /\ historyState' = updateHistoryState(historyRef')
  /\ historyEvent' = [kind |-> "redo", before |-> historyRef, layers |-> drawnItems]
  /\ UNCHANGED notHistoryVars

(***************************************************************************)
(* RoomPage.tsx: throttle, and the edit handler it wraps.                  *)
(***************************************************************************)
\* the wait of the throttled edit handler, in ms
EditThrottleMs == 120

\* the closure of throttle(fn, wait) before its first call
NewThrottle == [last |-> 0, timeout |-> None, trailing |-> FALSE]

throttleCallAlwaysLeads(th, t, wait) ==
  [th |-> [th EXCEPT !.last = t, !.timeout = None], calls |-> TRUE]

\* a call of the throttled function at time t: the closure after it, and
\* whether fn has run
throttleCall(th, t, wait) ==
  IF t - th.last >= wait
  THEN [th |-> [th EXCEPT !.last = t, !.timeout = None], calls |-> TRUE]
  ELSE [th |-> [th EXCEPT
                  !.trailing = TRUE,
                  !.timeout = IF th.timeout = None
                              THEN Some(t + (wait - (t - th.last)))
                              ELSE th.timeout],
        calls |-> FALSE]

\* the timeout of the throttled function runs at time t
throttleTimeout(th, t) ==
  [th |-> [last |-> t, timeout |-> None, trailing |-> FALSE],
   calls |-> th.trailing]

\* the places the user drags the view object to
DragPlaces == { 14, 26, 30 }

\* editHandler reads the view object when it runs: layerToFeature rounds
\* what toGeoJSON gives
editCommit(at, place, how) ==
  [at |-> at, geometry |-> roundCoordinate(formatNum(place)), by |-> how]

ThrottleInit ==
  /\ throttled = NewThrottle
  /\ clientNow = ClientStart
  /\ dragged = 14
  /\ committed = <<>>

\* pm:edit, pm:vertexadded, pm:vertexremoved, pm:markerdragend, pm:dragend
\* on the view object, which the user has dragged to place
EditEvent(place) ==
  /\ Len(committed) < MaxCommits
  /\ dragged' = place
  /\ LET r == throttleCall(throttled, clientNow, EditThrottleMs)
     IN /\ throttled' = r.th
        /\ committed' = IF r.calls
                        THEN Append(committed, editCommit(clientNow, place, "leading"))
                        ELSE committed
  /\ UNCHANGED clientNow
  /\ UNCHANGED notThrottleVars

\* the event loop runs the timeout, at its time or later
TimeoutFires ==
  /\ throttled.timeout # None
  /\ clientNow >= throttled.timeout[1]
  /\ LET r == throttleTimeout(throttled, clientNow)
     IN /\ throttled' = r.th
        /\ committed' = IF r.calls
                        THEN Append(committed, editCommit(clientNow, dragged, "trailing"))
                        ELSE committed
  /\ UNCHANGED << clientNow, dragged >>
  /\ UNCHANGED notThrottleVars

\* time passes in the browser
ClientTick ==
  /\ clientNow < ClientStart + MaxTicks * TickMs
  /\ clientNow' = clientNow + TickMs
  /\ UNCHANGED << throttled, dragged, committed >>
  /\ UNCHANGED notThrottleVars

(***************************************************************************)
(* RoomPage.tsx and useRoomConnection: the features of a room as GeoJSON,  *)
(* and the layers of the map.                                              *)
(***************************************************************************)
\* new L.LatLng(lat, lng)
LatLng(lat, lng) == [lat |-> lat, lng |-> lng]

\* what the user draws with the two enabled tools, Line and CircleMarker
DrawnShapes ==
  { [type |-> "Polyline", latlngs |-> << LatLng(26, 14), LatLng(46, 34) >>,
     feature |-> None],
    [type |-> "CircleMarker", latlngs |-> << LatLng(26, 14) >>, feature |-> None] }

\* where the user drags a layer of either type to
DraggedTo(type) ==
  IF type = "Polyline"
  THEN { << LatLng(26, 14), LatLng(58, 34) >> }
  ELSE { << LatLng(58, 14) >> }

\* a property of an object, undefined (None) when the object has no such key
Prop(properties, key) ==
  IF key \in DOMAIN properties THEN properties[key] ELSE None

\* { kind, name: source.properties?.name, ...source.properties }: the keys
\* of the source come last and win
SpreadProperties(kind, properties) ==
  properties @@ [kind |-> kind, name |-> Prop(properties, "name")]

\* normalizeFeature: the coordinates rounded to six decimals
normalizeFeature(feature) ==
  LET geometry == feature.geometry
      round(pair) == << roundCoordinate(pair[1]), roundCoordinate(pair[2]) >>
  IN IF geometry.type = "LineString"
     THEN [feature EXCEPT !.geometry.coordinates =
             [i \in 1..Len(geometry.coordinates) |-> round(geometry.coordinates[i])]]
     ELSE IF geometry.type = "Point"
     THEN [feature EXCEPT !.geometry.coordinates = round(geometry.coordinates)]
     ELSE feature

\* layer.toGeoJSON(): the geometry of the layer at Leaflet's precision, with
\* the properties of layer.feature when the layer has one
layerToGeoJSON(layer) ==
  LET point(ll) == << formatNum(ll.lng), formatNum(ll.lat) >>
  IN [geometry |->
        IF layer.type = "CircleMarker"
        THEN [type |-> "Point", coordinates |-> point(layer.latlngs[1])]
        ELSE [type |-> "LineString",
              coordinates |-> [i \in 1..Len(layer.latlngs) |-> point(layer.latlngs[i])]],
      properties |-> IF layer.feature = None THEN << >> ELSE layer.feature[1].properties]

\* layerToFeature(layer, featureId, kind)
layerToFeature(layer, featureId, kind) ==
  LET geo == layerToGeoJSON(layer)
  IN normalizeFeature([id |-> featureId,
                       geometry |-> geo.geometry,
                       properties |-> SpreadProperties(kind, geo.properties)])

\* ensureFeature: the features one feature of an imported file gives, with
\* ids of nanoid()
ensureFeature(source, ids) ==
  LET made(type, coordinates, kind, id) ==
        normalizeFeature([id |-> id,
                          geometry |-> [type |-> type, coordinates |-> coordinates],
                          properties |-> SpreadProperties(kind, source.properties)])
      multi == source.geometry.coordinates
  IN CASE source.geometry.type = "LineString" ->
            << made("LineString", multi, "line", ids[1]) >>
       [] source.geometry.type = "Point" ->
            << made("Point", multi, "point", ids[1]) >>
       [] source.geometry.type = "MultiLineString" ->
            [i \in 1..Len(multi) |-> made("LineString", multi[i], "line", ids[i])]
       [] source.geometry.type = "MultiPoint" ->
            [i \in 1..Len(multi) |-> made("Point", multi[i], "point", ids[i])]
       [] OTHER -> << >>

\* createLayerForFeature: L.geoJSON with circle markers for the points; the
\* handlers attached to the layer keep the kind of the feature
createLayerForFeature(feature) ==
  [type |-> IF feature.geometry.type = "Point" THEN "CircleMarker" ELSE "Polyline",
   latlngs |-> IF feature.geometry.type = "Point"
               THEN << LatLng(feature.geometry.coordinates[2], feature.geometry.coordinates[1]) >>
               ELSE [i \in 1..Len(feature.geometry.coordinates) |->
                       LatLng(feature.geometry.coordinates[i][2],
                              feature.geometry.coordinates[i][1])],
   feature |-> Some(feature),
   kind |-> Prop(feature.properties, "kind")]

\* updateLayerGeometry(layer, feature)
updateLayerGeometry(layer, feature) ==
  LET coordinates == feature.geometry.coordinates
      moved ==
        IF feature.geometry.type = "LineString" /\ layer.type = "Polyline"
        THEN [layer EXCEPT !.latlngs =
                [i \in 1..Len(coordinates) |-> LatLng(coordinates[i][2], coordinates[i][1])]]
        ELSE IF feature.geometry.type = "Point" /\ layer.type = "CircleMarker"
        THEN [layer EXCEPT !.latlngs = << LatLng(coordinates[2], coordinates[1]) >>]
        ELSE layer
  IN [moved EXCEPT !.feature = Some(feature)]

(***************************************************************************)
(* One feature between the map and the document.  The user draws a layer   *)
(* anywhere, the create handler commits layerToFeature of it, the          *)
(* reconciliation draws the committed feature, and an edit handler commits *)
(* layerToFeature of the layer as it is, moved or not.                     *)
(***************************************************************************)
\* the coordinates a pointer can be at, in 1e-7 degrees: both signs, with
\* halves of the sixth decimal
Coordinates == { 0 - 25, 0 - 15, 5, 14 }

\* the layers the user can draw, and the places a layer can be dragged to
LatLngs(type) ==
  IF type = "CircleMarker"
  THEN { << LatLng(a, b) >> : a \in Coordinates, b \in Coordinates }
  ELSE { << LatLng(a, b), LatLng(b, 0 - a) >> : a \in Coordinates, b \in Coordinates }

kindOf(type) == IF type = "CircleMarker" THEN "point" ELSE "line"

NoCommit == [op |-> "none"]

CommitInit ==
  /\ stored = None
  /\ shown = None
  /\ rewrite = NoCommit

\* handleCreate: the drawn layer is committed and taken off the map
CommitCreate(type, latlngs) ==
  /\ stored = None
  /\ stored' = Some(layerToFeature([type |-> type, latlngs |-> latlngs, feature |-> None],
                                   <<"f">>, kindOf(type)))
  /\ shown' = None
  /\ rewrite' = [op |-> "create"]
  /\ UNCHANGED notCommitVars

\* handleImport of a file with one point: ensureFeature commits it
CommitImport(lng, lat) ==
  /\ stored = None
  /\ stored' = Some(ensureFeature([geometry |-> [type |-> "Point",
                                                 coordinates |-> << lng, lat >>],
                                   properties |-> << >>], << <<"f">> >>)[1])
  /\ shown' = None
  /\ rewrite' = [op |-> "import"]
  /\ UNCHANGED notCommitVars

\* the reconciliation: the layer of the feature is made, or moved to where
\* the feature is
CommitRender ==
  /\ stored # None
  /\ shown' = IF shown = None
              THEN Some(createLayerForFeature(stored[1]))
              ELSE Some(updateLayerGeometry(shown[1], stored[1]))
  /\ rewrite' = [op |-> "render"]
  /\ UNCHANGED << stored, notCommitVars >>

\* the user drags the layer or a vertex of it
CommitMove(latlngs) ==
  /\ shown # None
  /\ latlngs # shown[1].latlngs
  /\ shown' = Some([shown[1] EXCEPT !.latlngs = latlngs])
  /\ rewrite' = [op |-> "move"]
  /\ UNCHANGED << stored, notCommitVars >>

\* the edit handlers of the layer: commitFeatureUpdate(layerToFeature(...))
CommitEdit ==
  /\ shown # None
  /\ stored' = Some(layerToFeature(shown[1], stored[1].id,
                                   Prop(stored[1].properties, "kind")))
  /\ rewrite' = [op |-> "edit",
                 moved |-> shown[1].latlngs # createLayerForFeature(stored[1]).latlngs,
                 before |-> stored[1]]
  /\ UNCHANGED << shown, notCommitVars >>

\* handleRemoveFeature: the feature and its layer are gone
CommitRemove ==
  /\ stored # None
  /\ stored' = None
  /\ shown' = None
  /\ rewrite' = [op |-> "remove"]
  /\ UNCHANGED notCommitVars

(***************************************************************************)
(* The shared document of a room as a page holds it.  connection.features  *)
(* is a Y.Array: a list of items, each with the id of the client and the   *)
(* clock it was made at and the item it was inserted after; a deleted item *)
(* stays in the list as a tombstone.  Two replicas merge into the same     *)
(* list whatever the order their updates arrive in: items inserted at one  *)
(* place by different clients are ordered by their ids.  selectionMap and  *)
(* viewMap are Y.Maps: the entry of a key is the value written last.       *)
(***************************************************************************)
\* the clients of the room: doc.clientID
Clients == { 1, 2 }

\* the start of a list, and the id of an entry nobody has written
ListStart == << 0, 0 >>

\* the order of the ids: the clock, then the client
IdLess(a, b) == a[1] < b[1] \/ (a[1] = b[1] /\ a[2] < b[2])

NewItem(uid, origin, content) ==
  [uid |-> uid, origin |-> origin, content |-> content, deleted |-> FALSE,
   redone |-> None]

\* the items of a list that are not deleted
Visible(arr) == SelectSeq(arr, LAMBDA it : ~it.deleted)

\* features.toJSON()
yToJSON(arr) == [i \in 1..Len(Visible(arr)) |-> Visible(arr)[i].content]

\* list.findIndex((item) => item.id === id), counted from 0
findIndex(list, id) ==
  IF \E i \in 1..Len(list) : list[i].id = id
  THEN (CHOOSE i \in 1..Len(list) :
          /\ list[i].id = id
          /\ \A j \in 1..(i - 1) : list[j].id # id) - 1
  ELSE -1

\* where the item of an id is in the list, 0 for the start of the list
PosOf(arr, uid) ==
  IF uid = ListStart THEN 0 ELSE CHOOSE p \in 1..Len(arr) : arr[p].uid = uid

\* where the visible item of an index (from 0) is in the list
PosOfIndex(arr, index) ==
  CHOOSE p \in 1..Len(arr) :
    /\ ~arr[p].deleted
    /\ Cardinality({ q \in 1..(p - 1) : ~arr[q].deleted }) = index

InsertAt(arr, pos, item) ==
  SubSeq(arr, 1, pos) \o << item >> \o SubSeq(arr, pos + 1, Len(arr))

\* features.delete(index, 1)
yDelete(arr, index) == [arr EXCEPT ![PosOfIndex(arr, index)].deleted = TRUE]

\* features.insert(index, [content]): right after the visible item before
\* the index
yInsert(arr, index, content, uid) ==
  LET pos == IF index = 0 THEN 0 ELSE PosOfIndex(arr, index - 1)
  IN InsertAt(arr, pos, NewItem(uid, IF pos = 0 THEN ListStart ELSE arr[pos].uid, content))

\* features.push(contents): after the last item of the list, with the
\* clocks after clock
RECURSIVE yPush(_, _, _, _)
yPush(arr, contents, clock, client) ==
  IF contents = << >> THEN arr
  ELSE yPush(Append(arr, NewItem(<< clock + 1, client >>,
                                 IF arr = << >> THEN ListStart ELSE arr[Len(arr)].uid,
                                 contents[1])),
             Tail(contents), clock + 1, client)

\* an item of another client finds its place: after the item it was
\* inserted after, and after the items put there with a later id
RECURSIVE SkipLater(_, _, _)
SkipLater(arr, pos, uid) ==
  IF pos < Len(arr) /\ IdLess(uid, arr[pos + 1].uid)
  THEN SkipLater(arr, pos + 1, uid)
  ELSE pos

Integrate(arr, item) ==
  InsertAt(arr, SkipLater(arr, PosOf(arr, item.origin), item.uid), item)

RECURSIVE IntegrateAll(_, _)
IntegrateAll(arr, items) ==
  IF items = {} THEN arr
  ELSE LET first == CHOOSE it \in items :
                      \A other \in items \ {it} : IdLess(it.uid, other.uid)
       IN IntegrateAll(Integrate(arr, [first EXCEPT !.redone = None]),
                       items \ {first})

Items(arr) == { arr[i] : i \in 1..Len(arr) }
Uids(arr) == { arr[i].uid : i \in 1..Len(arr) }

\* the list of this page after the updates of another replica have come in
MergeArray(arr, remote) ==
  LET known == [i \in 1..Len(arr) |->
                  [arr[i] EXCEPT !.deleted =
                     @ \/ \E it \in Items(remote) :
                            it.uid = arr[i].uid /\ it.deleted]]
  IN IntegrateAll(known, { it \in Items(remote) : it.uid \notin Uids(arr) })

\* an entry of a Y.Map that was never written
NoEntry == [val |-> None, uid |-> ListStart, deleted |-> FALSE]

\* map.get(key)
EntryValue(entry) == IF entry.deleted THEN None ELSE entry.val

\* the entry of a key after the updates of another replica have come in
MergeEntry(entry, remote) ==
  IF entry.uid = remote.uid
  THEN [entry EXCEPT !.deleted = @ \/ remote.deleted]
  ELSE IF IdLess(entry.uid, remote.uid) THEN remote ELSE entry

(***************************************************************************)
(* Y.UndoManager over connection.features, tracking the transactions of    *)
(* undoOrigin.  A stack item holds the items a tracked transaction has     *)
(* inserted and those it has deleted.  Transactions run further apart than *)
(* the capture timeout of the manager, so that each is a stack item.       *)
(***************************************************************************)
NewUndoManager == [undoStack |-> << >>, redoStack |-> << >>]

\* what a transaction has inserted into the list and deleted from it
TxOf(before, after) ==
  [insertions |-> Uids(after) \ Uids(before),
   deletions |-> { it.uid : it \in { x \in Items(after) : x.deleted
                                       /\ \E b \in Items(before) :
                                            b.uid = x.uid /\ ~b.deleted } }]

NoChange(tx) == tx.insertions = {} /\ tx.deletions = {}

\* the handler of afterTransaction, for a tracked transaction: how is
\* "edit", "undo" or "redo"
afterTransaction(um, tx, how) ==
  IF NoChange(tx) THEN um
  ELSE IF how = "undo" THEN [um EXCEPT !.redoStack = Append(@, tx)]
  ELSE IF how = "redo" THEN [um EXCEPT !.undoStack = Append(@, tx)]
  ELSE [undoStack |-> Append(um.undoStack, tx), redoStack |-> << >>]

\* the item an item has been brought back as, through every undo since
RECURSIVE FollowRedone(_, _)
FollowRedone(arr, uid) ==
  LET it == arr[PosOf(arr, uid)]
  IN IF it.redone = None THEN uid ELSE FollowRedone(arr, it.redone[1])

\* redoItem: a deleted item comes back as a copy right before its tombstone
redoItem(arr, uid, copy) ==
  LET pos == PosOf(arr, uid)
      marked == [arr EXCEPT ![pos].redone = Some(copy)]
  IN IF arr[pos].redone # None THEN arr
     ELSE InsertAt(marked, pos - 1,
                   NewItem(copy, IF pos = 1 THEN ListStart ELSE arr[pos - 1].uid,
                           arr[pos].content))

RECURSIVE RedoAll(_, _, _, _)
RedoAll(arr, uids, clock, client) ==
  IF uids = {} THEN [arr |-> arr, clock |-> clock]
  ELSE LET first == CHOOSE u \in uids : \A o \in uids \ {u} : IdLess(u, o)
           fresh == arr[PosOf(arr, first)].redone = None
       IN RedoAll(redoItem(arr, first, << clock + 1, client >>), uids \ {first},
                  IF fresh THEN clock + 1 ELSE clock, client)

\* popStackItem: the stack items are popped until one changes the list; the
\* items it deleted come back and the items it inserted are deleted
RECURSIVE popStackItem(_, _, _, _)
popStackItem(arr, stack, clock, client) ==
  IF stack = << >> THEN [arr |-> arr, stack |-> stack, clock |-> clock]
  ELSE LET item == Last(stack)
           itemsToDelete == { u \in { FollowRedone(arr, i) : i \in item.insertions } :
                                ~arr[PosOf(arr, u)].deleted }
           itemsToRedo == item.deletions \ item.insertions
           redone == RedoAll(arr, itemsToRedo, clock, client)
           after == [i \in 1..Len(redone.arr) |->
                       [redone.arr[i] EXCEPT !.deleted =
                          @ \/ redone.arr[i].uid \in itemsToDelete]]
       IN IF itemsToDelete = {} /\ itemsToRedo = {}
          THEN popStackItem(arr, Front(stack), clock, client)
          ELSE [arr |-> after, stack |-> Front(stack), clock |-> redone.clock]

(***************************************************************************)
(* RoomPage.tsx: the page of one client.                                   *)
(***************************************************************************)
\* the page when the connection is made and the map is mounted
NewPage(clientId, readOnly) ==
  [clientId |-> clientId,
   readOnly |-> readOnly,
   features |-> << >>,
   selectionMap |-> [key \in Clients |-> NoEntry],
   viewMap |-> NoEntry,
   clock |-> 0,
   undoManager |-> NewUndoManager,
   layersRef |-> << >>,
   localSelectionRef |-> None,
   wrote |-> {},
   origins |-> {},     \* history: the shared types the handlers of the user
                       \* interface have changed, with the origin of the change
   echoed |-> FALSE,
   missed |-> {},      \* history: the ids edit commits have not found in the list
   made |-> {},        \* history: the view objects put on the map, each with the
                       \* feature id it carries and how it came to be
   remoteRemoved |-> {}]

\* the ids of a list of features
IdsOf(list) == { list[i].id : i \in 1..Len(list) }

\* selectionState of the last render, for the key of this client
selectionState(p) == EntryValue(p.selectionMap[p.clientId])

\* Symbol('local-edit'), minted once by the page, and the origin of a change
\* made outside doc.transact: Yjs runs it in a transaction of origin null
undoOrigin == "local-edit"
NoOrigin == "null"

\* connection.selectionMap.set(String(connection.clientId), featureId)
selectionSet(p, featureId) ==
  [p EXCEPT !.selectionMap[p.clientId] =
              [val |-> Some(featureId), uid |-> << p.clock + 1, p.clientId >>,
               deleted |-> FALSE],
            !.clock = @ + 1,
            !.wrote = @ \cup { "selection" },
            !.origins = @ \cup { [what |-> "selection", origin |-> NoOrigin] }]

\* connection.selectionMap.delete(String(connection.clientId))
selectionDelete(p) ==
  IF selectionState(p) = None THEN p
  ELSE [p EXCEPT !.selectionMap[p.clientId].deleted = TRUE,
                 !.wrote = @ \cup { "selection" },
                 !.origins = @ \cup { [what |-> "selection", origin |-> NoOrigin] }]

\* the second listener of pm:remove
handleRemoveFeature(p, featureId, selected) ==
  IF selected = Some(featureId) THEN selectionDelete(p) ELSE p

RECURSIVE syncEach(_, _)
syncEach(layers, items) ==
  IF items = << >> THEN layers
  ELSE LET feature == items[1]
           layer == IF feature.id \in DOMAIN layers
                    THEN updateLayerGeometry(layers[feature.id], feature)
                    ELSE createLayerForFeature(feature)
       IN syncEach((feature.id :> layer) @@ layers, Tail(items))

syncLayersKeepsStale(layers, items) == syncEach(layers, items)

\* syncLayers: a layer for every feature of the list, and no other layer
syncLayers(layers, items) ==
  LET synced == syncEach(layers, items)
  IN [id \in IdsOf(items) |-> synced[id]]

\* the observer of connection.features.  The layers the reconciliation
\* removes are removed under suppressLocalEventsRef; when the map notifies
\* of a removal, handleRemove returns at once and handleRemoveFeature runs
observer(p, selected, notifies) ==
  LET list == yToJSON(p.features)
      removed == DOMAIN p.layersRef \ IdsOf(list)
      created == IdsOf(list) \ DOMAIN p.layersRef
      synced == [p EXCEPT !.layersRef = syncLayers(p.layersRef, list),
                          !.made = @ \cup { [id |-> id, how |-> "created"] : id \in created }]
  IN IF notifies /\ selected # None /\ selected[1] \in removed
     THEN handleRemoveFeature(synced, selected[1], selected)
     ELSE synced

\* connection.doc.transact(..., undoOrigin) on the features, and what
\* follows it: the undo manager and the observer
transact(p, features, clock, how, selected, notifies) ==
  observer([p EXCEPT !.features = features,
                     !.clock = clock,
                     !.undoManager = afterTransaction(@, TxOf(p.features, features), how),
                     !.wrote = IF features = p.features THEN @ ELSE @ \cup { "features" },
                     !.origins = IF how = "edit"
                                 THEN @ \cup { [what |-> "features", origin |-> undoOrigin] }
                                 ELSE @],
           selected, notifies)

\* pm:create, with the layer registered after the commit
handleCreateCommitsFirst(p, layer, notifies) ==
  IF p.readOnly THEN p
  ELSE LET kind == IF layer.type = "CircleMarker" THEN "point" ELSE "line"
           id == << p.clock + 1, p.clientId >>
           feature == normalizeFeature(layerToFeature(layer, id, kind))
           owned == [type |-> layer.type, latlngs |-> layer.latlngs,
                     feature |-> Some(feature), kind |-> kind]
           pushed == transact(p,
                              yPush(p.features, << feature >>, p.clock, p.clientId),
                              p.clock + 1, "edit", selectionState(p), notifies)
           registered == [pushed EXCEPT
                            !.layersRef = (id :> owned) @@ @,
                            !.made = @ \cup { [id |-> id, how |-> "drawn"] }]
       IN selectionSet([registered EXCEPT !.localSelectionRef = Some(id)], id)

\* pm:create
handleCreate(p, layer, notifies) ==
  IF p.readOnly THEN p
  ELSE LET kind == IF layer.type = "CircleMarker" THEN "point" ELSE "line"
           id == << p.clock + 1, p.clientId >>
           feature == normalizeFeature(layerToFeature(layer, id, kind))
           owned == [type |-> layer.type, latlngs |-> layer.latlngs,
                     feature |-> Some(feature), kind |-> kind]
           registered == [p EXCEPT !.layersRef = (id :> owned) @@ @,
                                   !.made = @ \cup { [id |-> id, how |-> "drawn"] }]
           pushed == transact(registered,
                              yPush(p.features, << feature >>, p.clock, p.clientId),
                              p.clock + 1, "edit", selectionState(p), notifies)
       IN selectionSet([pushed EXCEPT !.localSelectionRef = Some(id)], id)

\* commitFeatureUpdate, with a feature of an unknown id appended
commitFeatureUpdateAppends(p, feature, selected, notifies) ==
  LET index == findIndex(yToJSON(p.features), feature.id)
  IN IF index = -1
     THEN transact([p EXCEPT !.missed = @ \cup { feature.id }],
                   yPush(p.features, << feature >>, p.clock, p.clientId),
                   p.clock + 1, "edit", selected, notifies)
     ELSE transact(p,
                   yInsert(yDelete(p.features, index), index, feature,
                           << p.clock + 1, p.clientId >>),
                   p.clock + 1, "edit", selected, notifies)

\* commitFeatureUpdate
commitFeatureUpdate(p, feature, selected, notifies) ==
  LET index == findIndex(yToJSON(p.features), feature.id)
  IN IF index = -1 THEN [p EXCEPT !.missed = @ \cup { feature.id }]
     ELSE transact(p,
                   yInsert(yDelete(p.features, index), index, feature,
                           << p.clock + 1, p.clientId >>),
                   p.clock + 1, "edit", selected, notifies)

\* editHandler, run by the throttle of the layer
editHandler(p, featureId, notifies) ==
  LET layer == p.layersRef[featureId]
  IN commitFeatureUpdate(p, layerToFeature(layer, featureId, layer.kind),
                         selectionState(p), notifies)

\* pm:remove, first listener
handleRemove(p, featureId, suppressLocalEvents, selected, notifies) ==
  IF suppressLocalEvents \/ p.readOnly THEN p
  ELSE LET index == findIndex(yToJSON(p.features), featureId)
       IN IF index = -1 THEN p
          ELSE transact(p, yDelete(p.features, index), p.clock, "edit",
                        selected, notifies)

\* pm:select
handleSelect(p, featureId) ==
  selectionSet([p EXCEPT !.localSelectionRef = Some(featureId)], featureId)

\* pm:unselect
handleUnselect(p, featureId) ==
  IF p.localSelectionRef = Some(featureId)
  THEN selectionDelete([p EXCEPT !.localSelectionRef = None])
  ELSE p

\* the ids nanoid() gives to the features of an import
RECURSIVE ImportAll(_, _, _)
ImportAll(sources, clock, client) ==
  IF sources = << >> THEN << >>
  ELSE LET n == IF sources[1].geometry.type \in { "MultiLineString", "MultiPoint" }
                THEN Len(sources[1].geometry.coordinates) ELSE 1
           made == ensureFeature(sources[1],
                                 [i \in 1..n |-> << clock + i, client >>])
       IN made \o ImportAll(Tail(sources), clock + Len(made), client)

\* handleImportFiles, for the features the files hold
handleImportFiles(p, sources, notifies) ==
  IF p.readOnly THEN p
  ELSE LET importedFeatures == ImportAll(sources, p.clock, p.clientId)
       IN IF Len(importedFeatures) = 0 THEN p
          ELSE transact(p,
                        yPush(p.features, importedFeatures, p.clock, p.clientId),
                        p.clock + Len(importedFeatures), "edit",
                        selectionState(p), notifies)

\* shareView
shareView(p, state) ==
  IF p.readOnly THEN p
  ELSE [p EXCEPT !.viewMap = [val |-> Some(state),
                              uid |-> << p.clock + 1, p.clientId >>,
                              deleted |-> FALSE],
                 !.clock = @ + 1,
                 !.wrote = @ \cup { "view" },
                 !.origins = @ \cup { [what |-> "view", origin |-> undoOrigin] }]

\* handleUndo of RoomPage: connection.undoManager.undo()
undoManagerUndo(p, notifies) ==
  IF p.readOnly THEN p
  ELSE LET r == popStackItem(p.features, p.undoManager.undoStack, p.clock, p.clientId)
           popped == [p EXCEPT !.undoManager.undoStack = r.stack]
       IN transact(popped, r.arr, r.clock, "undo", selectionState(p), notifies)

\* handleRedo of RoomPage: connection.undoManager.redo()
undoManagerRedo(p, notifies) ==
  IF p.readOnly THEN p
  ELSE LET r == popStackItem(p.features, p.undoManager.redoStack, p.clock, p.clientId)
           popped == [p EXCEPT !.undoManager.redoStack = r.stack]
       IN transact(popped, r.arr, r.clock, "redo", selectionState(p), notifies)

\* the updates of another replica come in through the provider
receive(p, remote, notifies) ==
  LET merged == [p EXCEPT
                   !.features = MergeArray(@, remote.features),
                   !.selectionMap = [key \in Clients |->
                                       MergeEntry(@[key], remote.selectionMap[key])],
                   !.viewMap = MergeEntry(@, remote.viewMap),
                   !.clock = IF remote.clock > @ THEN remote.clock ELSE @]
      observed == observer([merged EXCEPT !.wrote = {}], selectionState(p), notifies)
  IN IF merged.features = p.features THEN merged
     ELSE [observed EXCEPT !.wrote = p.wrote \cup observed.wrote,
                           !.echoed = @ \/ observed.wrote # {},
                           !.origins = p.origins]

\* the features of the files a user imports: a track, and a waypoint whose
\* properties hold a kind of their own
ImportedFiles ==
  { << [geometry |-> [type |-> "LineString",
                      coordinates |-> << << 14, 26 >>, << 34, 46 >> >>],
        properties |-> [name |-> Some("track")]] >>,
    << [geometry |-> [type |-> "Point", coordinates |-> << 14, 26 >>],
        properties |-> [kind |-> "line"]] >> }

\* the views a user shares
Views == { "here" }

PageInit(readOnlyClients) ==
  /\ pages = [c \in Clients |-> NewPage(c, c \in readOnlyClients)]
  /\ pageEvents = 0

\* a handler has run: the history of the features that updates of other
\* clients have removed from the list of the page and not brought back
Finish(p, result, kind) ==
  LET before == IdsOf(yToJSON(p.features))
      after == IdsOf(yToJSON(result.features))
  IN [result EXCEPT !.remoteRemoved =
        IF kind = "receive" THEN (@ \cup (before \ after)) \ after ELSE @]

\* an event of the user interface reaches the page of client c
PageStep(c, kind, result) ==
  /\ pageEvents < MaxPageEvents
  /\ pages' = [pages EXCEPT ![c] = Finish(pages[c], result, kind)]
  /\ pageEvents' = pageEvents + 1
  /\ UNCHANGED notPageVars

Draw(c, layer, notifies) ==
  PageStep(c, "create", handleCreate(pages[c], layer, notifies))

\* the user drags a layer or one of its vertices: the throttled handler runs
EditLayer(c, featureId, notifies) ==
  /\ featureId \in DOMAIN pages[c].layersRef
  /\ \E latlngs \in DraggedTo(pages[c].layersRef[featureId].type) :
       PageStep(c, "edit",
                editHandler([pages[c] EXCEPT
                               !.layersRef[featureId].latlngs = latlngs],
                            featureId, notifies))

\* the user removes a layer: both listeners of pm:remove run
RemoveLayer(c, featureId, notifies) ==
  /\ featureId \in DOMAIN pages[c].layersRef
  /\ LET selected == selectionState(pages[c])
     IN PageStep(c, "remove",
                 handleRemoveFeature(
                   handleRemove(pages[c], featureId, FALSE, selected, notifies),
                   featureId, selected))

Select(c, featureId) ==
  /\ featureId \in DOMAIN pages[c].layersRef
  /\ PageStep(c, "select", handleSelect(pages[c], featureId))

Unselect(c, featureId) ==
  /\ featureId \in DOMAIN pages[c].layersRef
  /\ PageStep(c, "unselect", handleUnselect(pages[c], featureId))

Import(c, sources, notifies) ==
  PageStep(c, "import", handleImportFiles(pages[c], sources, notifies))

ShareView(c, state) ==
  PageStep(c, "share", shareView(pages[c], state))

Undo(c, notifies) ==
  PageStep(c, "undo", undoManagerUndo(pages[c], notifies))

Redo(c, notifies) ==
  PageStep(c, "redo", undoManagerRedo(pages[c], notifies))

\* the provider of client c applies what client d has sent
Receive(c, d, notifies) ==
  /\ c # d
  /\ LET result == receive(pages[c], pages[d], notifies)
     IN /\ result # pages[c]
        /\ pages' = [pages EXCEPT ![c] = Finish(pages[c], result, "receive")]
  /\ UNCHANGED pageEvents
  /\ UNCHANGED notPageVars

\* the features a page has a layer for
LayerIds(c) == DOMAIN pages[c].layersRef

\* the feature ids the view objects of a page have carried
MadeIds(c) == { m.id : m \in pages[c].made }

\* a layer the reconciliation has taken off the map, where the user had
\* dragged it to; the closure of its edit handler holds it and its kind
DetachedLayers ==
  { [type |-> l.type, latlngs |-> d, feature |-> None,
     kind |-> IF l.type = "CircleMarker" THEN "point" ELSE "line"] :
      l \in DrawnShapes, d \in DraggedTo("Polyline") \cup DraggedTo("CircleMarker") }

\* the timeout of the throttle fires for a layer whose handlers have been
\* detached: detachLayerHandlers does not clear the timeout, and the
\* trailing call commits the layer under the id of the closure
LateEdit(c, featureId, layer, notifies) ==
  /\ ~pages[c].readOnly
  /\ featureId \in MadeIds(c)
  /\ \/ featureId \notin LayerIds(c)
     \/ { m.how : m \in { x \in pages[c].made : x.id = featureId } } = { "drawn", "created" }
  /\ layer.latlngs \in DraggedTo(layer.type)
  /\ PageStep(c, "edit",
              commitFeatureUpdate(pages[c], layerToFeature(layer, featureId, layer.kind),
                                  selectionState(pages[c]), notifies))

\* the server with LOG_LEVEL=warn, and with the default, LOG_LEVEL=info
ServerInit == ServerStart("warn")

(***************************************************************************)
(* Presence.  Each provider has an awareness with the states it knows, its *)
(* own under its clientID; the library carries the own state of a client   *)
(* to the awareness of the others.  useRoomConnection copies the states on *)
(* every update and RoomPage derives the participants from the copy.       *)
(***************************************************************************)
\* getLocalUser(): the user of the browser, Invité-<name> with four digits
getLocalUser(c) ==
  [id |-> c, name |-> IF c = 1 THEN 8221 ELSE 1046, color |-> "hsl"]

\* a.name.localeCompare(b.name) < 0, for names that differ in their digits
localeCompare(a, b) == a < b

\* where the pointer can be on the map
Pointers == { LatLng(a, b) : a \in { 0 - 15, 14 }, b \in { 5 } }

\* awareness.setLocalState(state): the state under the own clientID, or no
\* state under it when state is null
setLocalState(states, clientID, state) ==
  IF state = None
  THEN [k \in DOMAIN states \ { clientID } |-> states[k]]
  ELSE (clientID :> state[1]) @@ states

\* awareness.setLocalStateField(field, value): nothing without a local state
setLocalStateField(states, clientID, field, value) ==
  IF clientID \notin DOMAIN states
  THEN states
  ELSE setLocalState(states, clientID,
                     Some([states[clientID] EXCEPT ![field] = value]))

\* updateParticipants: one entry for each state with a user, sorted by name
RECURSIVE sortedByName(_, _)
sortedByName(states, ids) ==
  IF ids = {} THEN << >>
  ELSE LET first == CHOOSE i \in ids :
                      \A j \in ids \ { i } :
                        localeCompare(states[i].user[1].name, states[j].user[1].name)
       IN << first >> \o sortedByName(states, ids \ { first })

updateParticipants(states, clientId) ==
  LET ids == { i \in DOMAIN states : states[i].user # None }
      order == sortedByName(states, ids)
  IN [n \in 1..Len(order) |->
        [clientId |-> order[n],
         name |-> states[order[n]].user[1].name,
         color |-> states[order[n]].user[1].color,
         isSelf |-> order[n] = clientId]]

\* the effect of RoomPage on awarenessStates: nothing in read-only mode
participantsEffect(c, states, list) ==
  IF pages[c].readOnly THEN list ELSE updateParticipants(states, c)

\* what an update of the awareness of c does to the page of c:
\* pushAwarenessState, then the effect on awarenessStates
PresenceUpdate(c, states, live, op) ==
  /\ awareness' = [awareness EXCEPT ![c] = [@ EXCEPT !.live = live, !.states = states]]
  /\ awarenessStates' = [awarenessStates EXCEPT ![c] = states]
  /\ participants' = [participants EXCEPT ![c] = participantsEffect(c, states, @)]
  /\ presenceEvent' = [op |-> op, by |-> c]
  /\ UNCHANGED notPresenceVars

PresenceInit ==
  /\ awareness = [c \in Clients |-> [live |-> FALSE, destroyed |-> FALSE, states |-> << >>]]
  /\ awarenessStates = [c \in Clients |-> << >>]
  /\ participants = [c \in Clients |-> << >>]
  /\ presenceEvent = [op |-> "none", by |-> 0]

\* the connection is established: new Awareness(doc) has the local state
\* {}, and the effect on [connection, user] publishes the user.  A page that
\* connects again does so with a new document, under a new clientID.
PresenceConnect(c) ==
  /\ ~awareness[c].live
  /\ ~awareness[c].destroyed
  /\ PresenceUpdate(c,
        setLocalStateField((c :> [user |-> None, cursor |-> None]), c,
                           "user", Some(getLocalUser(c))),
        TRUE, "connect")

\* handleMouseMove
handleMouseMove(states, clientID, latlng, t) ==
  setLocalStateField(states, clientID, "cursor",
                     Some([lat |-> roundCoordinate(latlng.lat),
                           lng |-> roundCoordinate(latlng.lng),
                           updatedAt |-> t]))

\* handleMouseOut, which forgets to clear the cursor
handleMouseOutKeeps(states, clientID) == states

\* handleMouseOut
handleMouseOut(states, clientID) ==
  setLocalStateField(states, clientID, "cursor", None)

MouseMove(c, latlng) ==
  /\ awareness[c].live
  /\ PresenceUpdate(c, handleMouseMove(awareness[c].states, c, latlng, clientNow),
                    TRUE, "mousemove")

MouseOut(c) ==
  /\ awareness[c].live
  /\ PresenceUpdate(c, handleMouseOut(awareness[c].states, c), TRUE, "mouseout")

\* the page is left: the cleanups clear the cursor and the local state, and
\* the connection is destroyed
PresenceTeardown(c) ==
  /\ awareness[c].live
  /\ awareness' = [awareness EXCEPT ![c] =
        [live |-> FALSE,
         destroyed |-> TRUE,
         states |-> setLocalState(setLocalStateField(@.states, c, "cursor", None),
                                  c, None)]]
  /\ awarenessStates' = [awarenessStates EXCEPT ![c] = << >>]
  /\ participants' = [participants EXCEPT ![c] = << >>]
  /\ presenceEvent' = [op |-> "teardown", by |-> c]
  /\ UNCHANGED notPresenceVars

\* the own state of d as its awareness publishes it
published(d) ==
  IF d \in DOMAIN awareness[d].states THEN Some(awareness[d].states[d]) ELSE None

\* applyAwarenessUpdate: the awareness of c learns the state of d
PresenceReceive(c, d) ==
  /\ c # d
  /\ awareness[c].live
  /\ LET known == IF d \in DOMAIN awareness[c].states
                  THEN Some(awareness[c].states[d]) ELSE None
     IN /\ known # published(d)
        /\ PresenceUpdate(c,
              IF published(d) = None
              THEN [k \in DOMAIN awareness[c].states \ { d } |-> awareness[c].states[k]]
              ELSE (d :> published(d)[1]) @@ awareness[c].states,
              TRUE, "receive")

(***************************************************************************)
(* server/src: the registry of the first server and its garbage collector, *)
(* an interval that removes the rooms not seen for the TTL.  The interval  *)
(* runs when it is due: the clock does not pass a sweep that is due.       *)
(***************************************************************************)
\* const ROOM_TTL_MS = 60 * 60 * 1000 of server/src/index.ts
REGISTRY_ROOM_TTL_MS == 3600000

\* the period of setInterval, 10 * 60 * 1000
SWEEP_INTERVAL_MS == 600000

\* how many sweeps the clock goes through
MaxSweeps == 8

RegistryRooms == { "r1", "r2" }

\* setRoom(roomId, info)
setRoom(reg, roomId, info) == (roomId :> info) @@ reg

\* removeRoom that leaves the room where it is
removeRoomKeeps(reg, roomId) == reg

\* removeRoom(roomId)
removeRoom(reg, roomId) == [r \in DOMAIN reg \ { roomId } |-> reg[r]]

\* updateLastSeen(roomId)
updateLastSeen(reg, roomId, t) ==
  IF roomId \in DOMAIN reg THEN [reg EXCEPT ![roomId].lastSeen = t] ELSE reg

\* the callback of setInterval: Object.entries(rooms).forEach(...)
RECURSIVE sweepEach(_, _, _)
sweepEach(reg, roomIds, t) ==
  IF roomIds = {} THEN reg
  ELSE LET roomId == CHOOSE r \in roomIds : TRUE
           after == IF t - reg[roomId].lastSeen > REGISTRY_ROOM_TTL_MS
                    THEN removeRoom(reg, roomId)
                    ELSE reg
       IN sweepEach(after, roomIds \ { roomId }, t)

RegistryInit ==
  /\ registry = << >>
  /\ registryNow = StartTime
  /\ nextSweep = StartTime + SWEEP_INTERVAL_MS
  /\ swept = [at |-> 0, found |-> << >>]

\* a room is registered as seen now
SetRoom(roomId) ==
  /\ registry' = setRoom(registry, roomId,
                         [doc |-> roomId, clientsCount |-> 0, lastSeen |-> registryNow])
  /\ UNCHANGED << registryNow, nextSweep, swept, notRegistryVars >>

\* a room is seen
UpdateLastSeen(roomId) ==
  /\ registry' = updateLastSeen(registry, roomId, registryNow)
  /\ UNCHANGED << registryNow, nextSweep, swept, notRegistryVars >>

\* time passes, to the middle of the period or to the sweep that is due next
RegistryTick ==
  /\ registryNow < nextSweep
  /\ nextSweep <= StartTime + MaxSweeps * SWEEP_INTERVAL_MS
  /\ registryNow' = IF registryNow < nextSweep - SWEEP_INTERVAL_MS \div 2
                    THEN nextSweep - SWEEP_INTERVAL_MS \div 2
                    ELSE nextSweep
  /\ UNCHANGED << registry, nextSweep, swept, notRegistryVars >>

\* the interval fires
Sweep ==
  /\ registryNow = nextSweep
  /\ registry' = sweepEach(registry, DOMAIN registry, registryNow)
  /\ nextSweep' = nextSweep + SWEEP_INTERVAL_MS
  /\ swept' = [at |-> registryNow, found |-> registry]
  /\ UNCHANGED << registryNow, notRegistryVars >>

(***************************************************************************)
(* The handlers with their guards.  map.removeLayer runs the listeners of  *)
(* the map and of the layer, and leaflet.geoJSON builds layers from a      *)
(* snapshot: either may throw.  syncLayers and handleCreate set and clear  *)
(* suppressLocalEventsRef around map.removeLayer in straight-line code;    *)
(* restoreSnapshot clears isRestoringRef in a finally block.               *)
(***************************************************************************)
\* both refs are created false
GuardInit ==
  /\ suppressLocalEventsRef = [c \in Clients |-> FALSE]
  /\ isRestoringRef = FALSE

\* the layers the removal branch of syncLayers finds without a feature
staleLayers(p, result) == DOMAIN p.layersRef \ IdsOf(yToJSON(result.features))

\* the removal branch of syncLayers: the flag after it.  A removal that
\* returns clears the flag; one that throws leaves the function before the
\* flag is cleared
removalBranch(flag, removes, throws) ==
  IF ~removes THEN flag ELSE throws

\* the page when map.removeLayer has thrown inside syncLayers: every
\* feature has its layer, and no key has been deleted from layersRef
syncLayersThrown(p, result) ==
  [result EXCEPT !.layersRef = syncEach(p.layersRef, yToJSON(result.features))]

\* a handler of the page of c has run to result; its reconciliation, if it
\* has removed a layer, has done so under the flag
GuardedStep(c, kind, result, throws) ==
  LET p == pages[c]
      removes == result.features # p.features /\ staleLayers(p, result) # {}
      ended == IF throws THEN syncLayersThrown(p, result) ELSE result
  IN /\ throws => removes
     /\ pageEvents < MaxPageEvents
     /\ ended # p \/ kind # "receive"
     /\ pages' = [pages EXCEPT ![c] = Finish(p, ended, kind)]
     /\ pageEvents' = IF kind = "receive" THEN pageEvents ELSE pageEvents + 1
     /\ suppressLocalEventsRef' =
          [suppressLocalEventsRef EXCEPT ![c] = removalBranch(@, removes, throws)]
     /\ UNCHANGED notGuardedPageVars

\* pm:create on a read-only page: the drawn layer is taken off the map
\* under the flag, and nothing else happens
GuardedDrawReadOnly(c, throws) ==
  /\ pages[c].readOnly
  /\ pageEvents < MaxPageEvents
  /\ pageEvents' = pageEvents + 1
  /\ suppressLocalEventsRef' =
       [suppressLocalEventsRef EXCEPT ![c] = removalBranch(@, TRUE, throws)]
  /\ UNCHANGED << pages, notGuardedPageVars >>

\* pm:remove: handleRemove reads the flag
GuardedRemoveLayer(c, featureId, notifies, throws) ==
  /\ featureId \in DOMAIN pages[c].layersRef
  /\ LET selected == selectionState(pages[c])
     IN GuardedStep(c, "remove",
                    handleRemoveFeature(
                      handleRemove(pages[c], featureId, suppressLocalEventsRef[c],
                                   selected, notifies),
                      featureId, selected),
                    throws)

GuardedUndo(c, notifies, throws) ==
  GuardedStep(c, "undo", undoManagerUndo(pages[c], notifies), throws)

GuardedRedo(c, notifies, throws) ==
  GuardedStep(c, "redo", undoManagerRedo(pages[c], notifies), throws)

GuardedReceive(c, d, notifies, throws) ==
  /\ c # d
  /\ GuardedStep(c, "receive", receive(pages[c], pages[d], notifies), throws)

\* pm:create and the other events of the Room component: captureSnapshot
\* reads the flag
GuardedLayerChange(drawn) ==
  /\ Len(historyRef.undoStack) < MaxSnapshots
  /\ pageEvents < MaxPageEvents
  /\ pageEvents' = pageEvents + 1
  /\ drawnItems' = drawn
  /\ historyRef' = captureSnapshot(historyRef, drawn, isRestoringRef)
  /\ historyState' = updateHistoryState(historyRef')
  /\ historyEvent' = [kind |-> "change", before |-> historyRef, layers |-> drawnItems]
  /\ UNCHANGED << isRestoringRef, notGuardedHistoryVars >>

\* restoreSnapshot: the flag after the try block and its finally
restoreSnapshotFinally(flag, throws) == FALSE

\* handleUndo and handleRedo with a restoreSnapshot that may throw after
\* clearLayers: the stacks are popped, the layers cleared, and the buttons
\* not updated
GuardedRestore(kind, r, throws) ==
  /\ r.history # historyRef
  /\ pageEvents < MaxPageEvents
  /\ pageEvents' = pageEvents + 1
  /\ historyRef' = r.history
  /\ drawnItems' = IF throws THEN {} ELSE r.drawn
  /\ historyState' = IF throws THEN historyState ELSE updateHistoryState(historyRef')
  /\ historyEvent' = [kind |-> kind, before |-> historyRef, layers |-> drawnItems]
  /\ isRestoringRef' = restoreSnapshotFinally(isRestoringRef, throws)
  /\ UNCHANGED notGuardedHistoryVars

GuardedHandleUndo(throws) ==
  GuardedRestore("undo", handleUndo(historyRef, drawnItems), throws)

GuardedHandleRedo(throws) ==
  GuardedRestore("redo", handleRedo(historyRef, drawnItems), throws)

(***************************************************************************)
(* The home pages and the room codes they make.  A string is a sequence of *)
(* characters; a character outside ASCII is written by its code point.     *)
(***************************************************************************)
\* nanoid(8): eight characters of A-Za-z0-9_-
NanoidSize == 8

\* \w of a regular expression without the u flag
WordChars == RoomIdChars \ { "-" }

UpperCase == << "A","B","C","D","E","F","G","H","I","J","K","L","M",
               "N","O","P","Q","R","S","T","U","V","W","X","Y","Z" >>
LowerCase == << "a","b","c","d","e","f","g","h","i","j","k","l","m",
               "n","o","p","q","r","s","t","u","v","w","x","y","z" >>

\* value.normalize('NFKD') of one character: a letter with an accent is the
\* letter and the combining accent
NFKD(ch) ==
  IF ch = "U+00E9" THEN << "e", "U+0301" >> ELSE << ch >>

\* the string of the normal forms of the characters of s
normalize(s) ==
  LET forms == [k \in 1..(2 * Len(s)) |->
                  LET form == NFKD(s[(k + 1) \div 2])
                  IN IF k % 2 = 1 THEN form[1]
                     ELSE IF Len(form) = 2 THEN form[2] ELSE ""]
  IN SelectSeq(forms, LAMBDA ch : ch # "")

\* .replace(/[^...]/g, ''): the characters of the class are kept
keepOnly(s, chars) == SelectSeq(s, LAMBDA ch : ch \in chars)

\* .replace(/[\s_-]+/g, '-'): one '-' for every run of separators
collapse(s) ==
  LET separates(i) == s[i] \in { " ", "_", "-" }
      marked == [i \in 1..Len(s) |->
                   IF ~separates(i) THEN s[i]
                   ELSE IF i < Len(s) /\ separates(i + 1) THEN "" ELSE "-"]
  IN SelectSeq(marked, LAMBDA ch : ch # "")

\* the string without the characters ch at its ends
strip(s, ch) ==
  LET others == { i \in 1..Len(s) : s[i] # ch }
  IN IF others = {} THEN << >>
     ELSE SubSeq(s, CHOOSE i \in others : \A j \in others : i <= j,
                    CHOOSE i \in others : \A j \in others : i >= j)

\* .replace(/^-+|-+$/g, '')
stripHyphens(s) == strip(s, "-")

toLowerCase(s) ==
  [i \in 1..Len(s) |->
     IF \E k \in 1..Len(UpperCase) : UpperCase[k] = s[i]
     THEN LowerCase[CHOOSE k \in 1..Len(UpperCase) : UpperCase[k] = s[i]]
     ELSE s[i]]

\* slugify: NFKD, only \w, white space and '-' kept, trimmed, the runs of
\* separators made one '-', no '-' at either end, lower case
slugify(value) ==
  toLowerCase(stripHyphens(collapse(strip(
    keepOnly(normalize(value), WordChars \cup { " ", "-" }), " "))))

\* buildRoomSlug(name), with the nanoid(8) it draws
buildRoomSlug(name, randomSuffix) ==
  LET trimmed == strip(name, " ")
  IN IF trimmed = << >> THEN randomSuffix
     ELSE LET slug == slugify(trimmed)
          IN IF slug # << >> THEN slug \o << "-" >> \o randomSuffix ELSE randomSuffix

\* Math.random().toString(36).substring(2, 8), for the digits of the
\* number after the point in base 36: zero is written "0"
randomSlug(digits) ==
  LET text == IF digits = << >> THEN << "0" >> ELSE << "0", "." >> \o digits
  IN SubSeq(text, 3, Min(8, Len(text)))

\* the characters of a session name, runs of which make the names: words,
\* separators, punctuation and a letter with an accent
NameChars == { "a", "B", "7", " ", "_", "-", "!", "U+00E9" }

RunLengths == { 1, RoomIdMaxLen - NanoidSize }

RECURSIVE Expand(_)
Expand(runs) ==
  IF runs = << >> THEN << >>
  ELSE Rep(Head(runs)[1], Head(runs)[2]) \o Expand(Tail(runs))

SessionNames ==
  { Expand(runs) : runs \in UNION { [1..n -> NameChars \X RunLengths] : n \in 0..MaxRuns } }

\* what nanoid(8) gives
RandomSuffixes == { Rep("V", NanoidSize), << "_", "-", "a", "B", "0", "z", "Z", "9" >> }

\* the digits of Math.random() in base 36: of 0, of 0.5, and of numbers
\* with two, six and eleven digits
RandomDigits ==
  { << >>, << "i" >>, << "0", "9" >>, << "4", "f", "z", "y", "o", "6" >>,
    << "k", "2", "0", "d", "x", "7", "q", "1", "m", "c", "5" >> }

NoCode == [by |-> "none", slug |-> << >>]

HomeInit ==
  /\ sessionName = << >>
  /\ roomCode = NoCode

\* onChange of the input of the session name: the user types on, or clears
\* the input
SetSessionName(name) ==
  /\ name \in SessionNames
  /\ sessionName' = name
  /\ UNCHANGED << roomCode, notHomeVars >>

\* handleCreate of HomePage
HomePageCreate(randomSuffix) ==
  /\ roomCode' = [by |-> "HomePage", slug |-> buildRoomSlug(sessionName, randomSuffix)]
  /\ UNCHANGED << sessionName, notHomeVars >>

\* handleCreate of Home, the older page
HomeCreate(digits) ==
  /\ roomCode' = [by |-> "Home", slug |-> randomSlug(digits)]
  /\ UNCHANGED << sessionName, notHomeVars >>

\* the components beside the history, the throttled handler and the pages
RestInit == CommitInit /\ PresenceInit /\ RegistryInit /\ GuardInit /\ HomeInit

LoggingInit ==
  ServerStart("info") /\ HistoryInit /\ ThrottleInit /\ PageInit({}) /\ RestInit

\* the state after construction: the server listens, the page is mounted
Init == ServerInit /\ HistoryInit /\ ThrottleInit /\ PageInit({}) /\ RestInit

\* the same, with the second client in read-only mode (?mode=ro)
ReadOnlyInit ==
  ServerInit /\ HistoryInit /\ ThrottleInit /\ PageInit({ 2 }) /\ RestInit

(***************************************************************************)
(* The specifications.  Spec is the gateway and the registry under every   *)
(* request of Requests, with documents the clients leave alone and a       *)
(* teardown that does not throw.  ThrottleSpec varies the time between the *)
(* requests and their origins.  DocSpec adds the clients' document and     *)
(* awareness messages, for requests to one room.  FaultSpec adds a         *)
(* teardown that may throw, and LiveSpec the fairness of the event loop.   *)
(***************************************************************************)
Sockets == 1..MaxRequests

Next ==
  \/ \E req \in Requests : Upgrade(req, ShortGap)
  \/ \E ws \in Sockets : AttachCallback(ws)
  \/ \E ws \in Sockets : HandshakeFails(ws)
  \/ \E ws \in Sockets : Close(ws)
  \/ \E tm \in timers : TimerFire(tm, FALSE, FALSE)
  \/ TtlElapses

Spec == Init /\ [][Next]_vars

\* both rooms from both origins, at either distance in time
ThrottleRequests ==
  { Request("ok", <<WsSeg, seg>>, None, o) : seg \in RoomSegs, o \in Origins }

ThrottleNext ==
  \/ \E req \in ThrottleRequests, gap \in Gaps : Upgrade(req, gap)
  \/ \E ws \in Sockets : AttachCallback(ws)
  \/ \E ws \in Sockets : HandshakeFails(ws)
  \/ \E ws \in Sockets : Close(ws)
  \/ \E tm \in timers : TimerFire(tm, FALSE, FALSE)
  \/ TtlElapses

ThrottleSpec == Init /\ [][ThrottleNext]_vars

\* one room, joined without a passcode or with a short one
DocRequests ==
  { Request("ok", <<WsSeg, <<"a", "b", "c">> >>, k, Direct) :
      k \in { None, Some(<<"s">>) } }

DocNext ==
  \/ \E req \in DocRequests : Upgrade(req, ShortGap)
  \/ \E ws \in Sockets : AttachCallback(ws)
  \/ \E ws \in Sockets : HandshakeFails(ws)
  \/ \E ws \in Sockets : Close(ws)
  \/ \E ws \in Sockets, f \in Features : ClientEdit(ws, f)
  \/ \E ws \in Sockets : ClientPresence(ws)
  \/ \E tm \in timers : TimerFire(tm, FALSE, FALSE)
  \/ TtlElapses

DocSpec == Init /\ [][DocNext]_vars

\* both rooms, no passcode
FaultRequests ==
  { Request("ok", <<WsSeg, seg>>, None, Direct) : seg \in RoomSegs }

FaultNext ==
  \/ \E req \in FaultRequests : Upgrade(req, LongGap)
  \/ \E ws \in Sockets : AttachCallback(ws)
  \/ \E ws \in Sockets : HandshakeFails(ws)
  \/ \E ws \in Sockets : Close(ws)
  \/ \E ws \in Sockets : ClientPresence(ws)
  \/ \E tm \in timers, a \in BOOLEAN, d \in BOOLEAN : TimerFire(tm, a, d)
  \/ TtlElapses

FaultSpec == Init /\ [][FaultNext]_vars

\* one room, no passcode
LiveRequests == { Request("ok", <<WsSeg, <<"a", "b", "c">> >>, None, Direct) }

LiveNext ==
  \/ \E req \in LiveRequests : Upgrade(req, LongGap)
  \/ \E ws \in Sockets : AttachCallback(ws)
  \/ \E ws \in Sockets : HandshakeFails(ws)
  \/ \E ws \in Sockets : Close(ws)
  \/ \E tm \in timers, a \in BOOLEAN, d \in BOOLEAN : TimerFire(tm, a, d)
  \/ TtlElapses

\* the event loop runs a due timeout, and time passes
LiveSpec ==
  /\ Init
  /\ [][LiveNext]_vars
  /\ WF_vars(\E tm \in timers, a \in BOOLEAN, d \in BOOLEAN : TimerFire(tm, a, d))
  /\ WF_vars(TtlElapses)

\* a room joined without a passcode or with one, and a second room, with
\* the log of the evictions
RecreateRequests ==
  { Request("ok", <<WsSeg, <<"a", "b", "c">> >>, k, Direct) :
      k \in { None, Some(<<"s">>) } }
    \cup { Request("ok", <<WsSeg, <<"x", "y", "z">> >>, None, Direct) }

RecreateNext ==
  \/ \E req \in RecreateRequests : Upgrade(req, ShortGap)
  \/ \E ws \in Sockets : AttachCallback(ws)
  \/ \E ws \in Sockets : HandshakeFails(ws)
  \/ \E ws \in Sockets : Close(ws)
  \/ \E tm \in timers, a \in BOOLEAN, d \in BOOLEAN : TimerFire(tm, a, d)
  \/ TtlElapses

RecreateSpec == LoggingInit /\ [][RecreateNext]_vars

\* one feature drawn, rendered, moved, edited and removed
CommitNext ==
  \/ \E type \in { "CircleMarker", "Polyline" } :
       \E latlngs \in LatLngs(type) : CommitCreate(type, latlngs)
  \/ \E lng \in Coordinates, lat \in Coordinates : CommitImport(lng, lat)
  \/ CommitRender
  \/ \E latlngs \in LatLngs(IF shown = None THEN "CircleMarker" ELSE shown[1].type) :
       CommitMove(latlngs)
  \/ CommitEdit
  \/ CommitRemove

CommitSpec == Init /\ [][CommitNext]_vars

\* two pages of a room, the second in read-only mode, with their pointers
PresenceNext ==
  \/ \E c \in Clients : PresenceConnect(c)
  \/ \E c \in Clients, latlng \in Pointers : MouseMove(c, latlng)
  \/ \E c \in Clients : MouseOut(c)
  \/ \E c \in Clients : PresenceTeardown(c)
  \/ \E c \in Clients, d \in Clients : PresenceReceive(c, d)

PresenceSpec == ReadOnlyInit /\ [][PresenceNext]_vars

\* the registry of the first server under registrations, activity and time
RegistryNext ==
  \/ \E roomId \in RegistryRooms : SetRoom(roomId)
  \/ \E roomId \in RegistryRooms : UpdateLastSeen(roomId)
  \/ RegistryTick
  \/ Sweep

RegistrySpec == Init /\ [][RegistryNext]_vars

\* both rooms, with the two endpoints of the HTTP server
MetricsNext ==
  \/ \E req \in FaultRequests : Upgrade(req, LongGap)
  \/ \E ws \in Sockets : AttachCallback(ws)
  \/ \E ws \in Sockets : HandshakeFails(ws)
  \/ \E ws \in Sockets : Close(ws)
  \/ \E tm \in timers : TimerFire(tm, FALSE, FALSE)
  \/ TtlElapses
  \/ GetHealth
  \/ GetMetrics

MetricsSpec == Init /\ [][MetricsNext]_vars

\* both rooms, a teardown that may throw, and the shutdown of the process
ShutdownNext ==
  \/ \E req \in FaultRequests : Upgrade(req, LongGap)
  \/ \E ws \in Sockets : AttachCallback(ws)
  \/ \E ws \in Sockets : HandshakeFails(ws)
  \/ \E ws \in Sockets : Close(ws)
  \/ \E tm \in timers, a \in BOOLEAN, d \in BOOLEAN : TimerFire(tm, a, d)
  \/ TtlElapses
  \/ \E awFail \in SUBSET DOMAIN rooms, docFail \in SUBSET DOMAIN rooms :
       Shutdown(awFail, docFail)

ShutdownSpec == Init /\ [][ShutdownNext]_vars

\* the Room component alone: the user draws, undoes and redoes
HistoryNext ==
  \/ \E drawn \in LayerChanges(drawnItems) : LayerChange(drawn)
  \/ HandleUndo
  \/ HandleRedo

HistorySpec == Init /\ [][HistoryNext]_vars

\* one view object and its throttled edit handler
EditNext ==
  \/ \E place \in DragPlaces : EditEvent(place)
  \/ TimeoutFires
  \/ ClientTick

EditSpec == Init /\ [][EditNext]_vars

\* the pages of two clients of one room, under every event of the user
\* interface
PageNext ==
  \/ \E c \in Clients, layer \in DrawnShapes, n \in BOOLEAN : Draw(c, layer, n)
  \/ \E c \in Clients : \E id \in LayerIds(c), n \in BOOLEAN : EditLayer(c, id, n)
  \/ \E c \in Clients : \E id \in LayerIds(c), n \in BOOLEAN : RemoveLayer(c, id, n)
  \/ \E c \in Clients : \E id \in LayerIds(c) : Select(c, id)
  \/ \E c \in Clients : \E id \in LayerIds(c) : Unselect(c, id)
  \/ \E c \in Clients, sources \in ImportedFiles, n \in BOOLEAN : Import(c, sources, n)
  \/ \E c \in Clients, state \in Views : ShareView(c, state)
  \/ \E c \in Clients, n \in BOOLEAN : Undo(c, n)
  \/ \E c \in Clients, n \in BOOLEAN : Redo(c, n)
  \/ \E c \in Clients, d \in Clients, n \in BOOLEAN : Receive(c, d, n)

\* the second page is read-only
ReadOnlySpec == ReadOnlyInit /\ [][PageNext]_vars

\* the feature list and its reconciliation with the layers: the first
\* client draws, both edit, remove, undo and redo
ReconcileNext ==
  \/ \E c \in { 1 }, layer \in DrawnShapes, n \in BOOLEAN : Draw(c, layer, n)
  \/ \E c \in Clients : \E id \in LayerIds(c), n \in BOOLEAN : EditLayer(c, id, n)
  \/ \E c \in Clients : \E id \in LayerIds(c), n \in BOOLEAN : RemoveLayer(c, id, n)
  \/ \E c \in Clients, n \in BOOLEAN : Undo(c, n)
  \/ \E c \in Clients, n \in BOOLEAN : Redo(c, n)
  \/ \E c \in Clients, d \in Clients, n \in BOOLEAN : Receive(c, d, n)

ReconcileSpec == Init /\ [][ReconcileNext]_vars

\* the same, with the timeouts of the throttles of detached layers
LateEditNext ==
  \/ ReconcileNext
  \/ \E c \in Clients : \E id \in MadeIds(c), layer \in DetachedLayers, n \in BOOLEAN :
        LateEdit(c, id, layer, n)

LateEditSpec == Init /\ [][LateEditNext]_vars

\* the guards: the first client draws, removes, undoes and redoes, the
\* second is read-only and draws; the Room component draws and restores
GuardNext ==
  \/ \E layer \in { l \in DrawnShapes : l.type = "CircleMarker" } : Draw(1, layer, FALSE)
  \/ \E c \in Clients, throws \in BOOLEAN : GuardedDrawReadOnly(c, throws)
  \/ \E c \in Clients : \E id \in LayerIds(c), n \in BOOLEAN, throws \in BOOLEAN :
        GuardedRemoveLayer(c, id, n, throws)
  \/ \E c \in Clients, n \in BOOLEAN, throws \in BOOLEAN : GuardedUndo(c, n, throws)
  \/ \E c \in Clients, n \in BOOLEAN, throws \in BOOLEAN : GuardedRedo(c, n, throws)
  \/ \E c \in Clients, d \in Clients, n \in BOOLEAN, throws \in BOOLEAN :
        GuardedReceive(c, d, n, throws)
  \/ \E drawn \in { {}, { [shape |-> "Marker", at |-> 14] } } : GuardedLayerChange(drawn)
  \/ \E throws \in BOOLEAN : GuardedHandleUndo(throws)
  \/ \E throws \in BOOLEAN : GuardedHandleRedo(throws)

GuardSpec == ReadOnlyInit /\ [][GuardNext]_vars

\* the home pages alone: the user types a name and creates a session
SlugNext ==
  \/ \E ch \in NameChars, n \in RunLengths : SetSessionName(sessionName \o Rep(ch, n))
  \/ SetSessionName(<< >>)
  \/ \E randomSuffix \in RandomSuffixes : HomePageCreate(randomSuffix)
  \/ \E digits \in RandomDigits : HomeCreate(digits)

SlugSpec == Init /\ [][SlugNext]_vars

(***************************************************************************)
(* The properties.                                                         *)
(***************************************************************************)
\* the step is a run of server.on('upgrade')
UpgradeStep == requests' = requests + 1

\* the codes of a request the gateway turns away
Rejections == { BadRequest, NotFound, RateLimit, PasscodeRequired }

\* the pending timeout the context of room r holds
TimerPending(r) == \E tm \in timers : tm.id = rooms[r].cleanupTimer

\* C1: a room id is in the registry exactly when its context has a
\* connection or a pending cleanup timer; stated here for the states where
\* no handshake is under way (the case of the claim where the handshake of
\* the creating request never completes): every registered room has a
\* connection or a pending timer, every pending timer and every attached
\* socket belongs to a registered room.
C1_RegistryIffLive ==
  (\A ws \in DOMAIN socks : socks[ws].state # "pending") =>
    /\ \A r \in DOMAIN rooms : rooms[r].connections # {} \/ TimerPending(r)
    /\ \A tm \in timers : Has(rooms, tm.roomId)
    /\ \A ws \in DOMAIN socks :
         socks[ws].state = "open" =>
           /\ Has(rooms, socks[ws].room)
           /\ ws \in rooms[socks[ws].room].connections

\* C4: attach wins over eviction.  A room with a connection holds no cleanup
\* timer, so every timer that can fire finds the connection set of its room
\* empty; and every pending timer was armed for the context its room id is
\* registered with now, so no timer of an earlier context evicts a later one.
C4_AttachWinsOverEviction ==
  /\ \A r \in DOMAIN rooms :
       rooms[r].connections # {} =>
         /\ rooms[r].cleanupTimer = NoTimer
         /\ \A tm \in timers : tm.roomId # r
  /\ \A tm \in timers :
       /\ Has(rooms, tm.roomId)
       /\ rooms[tm.roomId].ctx = tm.ctx
       /\ rooms[tm.roomId].cleanupTimer = tm.id
       /\ rooms[tm.roomId].connections = {}

\* a connection attached to the first context after its timer had come due
C4_AttachedAfterTtl ==
  /\ ctxSeq = 1
  /\ timerSeq >= 1
  /\ now >= StartTime + ROOM_TTL_MS
  /\ \E r \in DOMAIN rooms : rooms[r].connections # {}

\* C5: once a room has a secret S, a request whose supplied secret is not
\* exactly S (an omitted one too) is refused with the passcode code and never
\* handed to the attach callback, a request that supplies exactly S is
\* accepted, and a request without a secret to a room without one is accepted.
C5_ExactSecret ==
  [][ (UpgradeStep /\ Has(rooms, answer'.roomId)) =>
        LET S == rooms[answer'.roomId].passcode
            k == answer'.req.k
        IN IF S # None
           THEN /\ k = S => answer'.code = Switching
                /\ k # S => answer'.code = PasscodeRequired /\ socks' = socks
           ELSE k = None => answer'.code = Switching ]_vars

\* C6: while a context stays registered, a passcode it has is never changed
\* or cleared.
C6_SecretImmutable ==
  [][ \A r \in DOMAIN rooms :
        ( /\ rooms[r].passcode # None
          /\ Has(rooms', r)
          /\ rooms'[r].ctx = rooms[r].ctx ) =>
        rooms'[r].passcode = rooms[r].passcode ]_vars

\* a request with another secret has just been refused by a protected room
C6_OtherSecretRefused ==
  /\ answer.code = PasscodeRequired
  /\ Has(rooms, answer.roomId)
  /\ rooms[answer.roomId].passcode # None
  /\ SanitizePasscode(answer.req.k) # None
  /\ SanitizePasscode(answer.req.k) # rooms[answer.roomId].passcode

C8_Throttle ==
  [][ ( /\ UpgradeStep
        /\ answer'.code \in { RateLimit, Switching }
        /\ ~Has(rooms, answer'.roomId) ) =>
        LET ip == extractIp(answer'.req)
            early == /\ Has(lastCreation, ip)
                     /\ now' - lastCreation[ip] < ROOM_CREATION_THROTTLE_MS
        IN /\ answer'.code = RateLimit <=> early
           /\ answer'.code = Switching <=> Has(rooms', answer'.roomId)
           /\ early => rooms' = rooms ]_vars

\* a second creation, ShortGap after the first of the same origin, refused
C8_SecondCreationRefused ==
  /\ answer.code = RateLimit
  /\ Has(lastCreation, extractIp(answer.req))
  /\ now - lastCreation[extractIp(answer.req)] = ShortGap
  /\ ~Has(rooms, answer.roomId)

\* C9: get-or-create is idempotent per room id.  A request for a registered
\* id gets the registered context: no context is made, the counter and the
\* throttle ledger stay and the request is not throttled.  A request that
\* creates makes one context and adds one to the counter.  Calling
\* ensureRoomContext again for the id of a request let through changes
\* nothing.
C9_GetOrCreateOnce ==
  [][ /\ (UpgradeStep /\ answer'.code = Switching) =>
           \A k \in Keys :
             ensureRoomContext(Srv', answer'.roomId, SanitizePasscode(k),
                               now' + ShortGap) = Srv'
      /\ (UpgradeStep /\ Has(rooms, answer'.roomId)) =>
           /\ answer'.code # RateLimit
           /\ DOMAIN rooms' = DOMAIN rooms
           /\ rooms'[answer'.roomId].ctx = rooms[answer'.roomId].ctx
           /\ rooms'[answer'.roomId].doc = rooms[answer'.roomId].doc
           /\ totalRoomsCreated' = totalRoomsCreated
           /\ ctxSeq' = ctxSeq
           /\ roomCreationRate' = roomCreationRate
      /\ (UpgradeStep /\ answer'.code = Switching /\ ~Has(rooms, answer'.roomId)) =>
           /\ DOMAIN rooms' = DOMAIN rooms \cup { answer'.roomId }
           /\ totalRoomsCreated' = totalRoomsCreated + 1
           /\ ctxSeq' = ctxSeq + 1 ]_vars

\* two requests ShortGap apart for one new room id, both let through, one
\* context made
C9_TwoRequestsOneRoom ==
  /\ requests = 2
  /\ Len(socks) = 2
  /\ socks[1].state # "gone"
  /\ socks[2].state # "gone"
  /\ socks[1].room = socks[2].room
  /\ totalRoomsCreated = 1
  /\ now = StartTime + ShortGap
  /\ answer.code = Switching

\* socket ws is attached by the step, to a room its last connection had left
Reattach(ws) ==
  /\ ws \in DOMAIN socks
  /\ socks[ws].state = "pending"
  /\ socks'[ws].state = "open"
  /\ Has(detached, socks[ws].room)

\* the step cancels the pending timer of room r and leaves r with the context,
\* document content and presence its last connection left
Resumed(r, ws) ==
  /\ TimerPending(r)
  /\ rooms'[r].cleanupTimer = NoTimer
  /\ \A tm \in timers' : tm.roomId # r
  /\ rooms'[r].connections = {ws}
  /\ rooms'[r].ctx = detached[r].ctx
  /\ rooms'[r].doc = detached[r].doc
  /\ docs'[detached[r].doc].doc = "live"
  /\ docs'[detached[r].doc].awareness = "live"
  /\ docs'[detached[r].doc].features = detached[r].features
  /\ docs'[detached[r].doc].presence = detached[r].presence

\* C2 as stated: a connection that attaches to a room after its last
\* connection closed and before the cleanup timer fires cancels the timer and
\* finds the same context, the feature list, the presence set and the
\* passcode as they were when the last connection closed.
C2_ReattachKeepsAll ==
  [][ \A ws \in Sockets :
        Reattach(ws) =>
          /\ Resumed(socks[ws].room, ws)
          /\ rooms'[socks[ws].room].passcode = detached[socks[ws].room].passcode
    ]_vars

\* C2 as amended: the same, but the passcode is unchanged only if the room had
\* one when its last connection closed; a room without a passcode may have
\* adopted one from a request made since (the reattaching request included).
C2_ReattachKeepsAllButAdoptedSecret ==
  [][ \A ws \in Sockets :
        Reattach(ws) =>
          /\ Resumed(socks[ws].room, ws)
          /\ \/ rooms'[socks[ws].room].passcode = detached[socks[ws].room].passcode
             \/ detached[socks[ws].room].passcode = None
    ]_vars

\* the one context ever made has had a cleanup timer, and now has a
\* connection, no timer and a document with content
C2_ResumedWithContent ==
  /\ ctxSeq = 1
  /\ timerSeq >= 1
  /\ timers = {}
  /\ detached = EmptyMap
  /\ \E r \in DOMAIN rooms :
       /\ rooms[r].connections # {}
       /\ rooms[r].cleanupTimer = NoTimer
       /\ docs[rooms[r].doc].features # {}

DocIds == 1..MaxRequests

\* the last connection of room r, with document d, has closed and none has
\* attached since
Detached(r, d) == Has(detached, r) /\ detached[r].doc = d

Attached(r, d) ==
  Has(rooms, r) /\ rooms[r].doc = d /\ rooms[r].connections # {}

Evicted(r, d) ==
  /\ ~(Has(rooms, r) /\ rooms[r].doc = d)
  /\ ~(Has(yDocs, r) /\ yDocs[r] = d)

\* C3 as stated, its outcome: a document no registered room holds (its room
\* was evicted by the cleanup timer) has been destroyed, and so has its
\* presence.
C3_EvictedRoomDestroyed ==
  \A d \in DOMAIN docs :
    (\A r \in DOMAIN rooms : rooms[r].doc # d) =>
      docs[d].doc = "destroyed" /\ docs[d].awareness = "destroyed"

\* C3 as amended: a room whose last connection has closed is eventually
\* attached to again, or absent from the registry after destroy() was called
\* on its presence and on its document, each destroyed unless its destroy()
\* threw.
C3_DetachedRoomEvicted ==
  \A r \in RoomSegs, d \in DocIds :
    Detached(r, d) ~>
      \/ Attached(r, d)
      \/ /\ Evicted(r, d)
         /\ d \in DOMAIN docs
         /\ docs[d].doc # "live"
         /\ docs[d].awareness # "live"

\* a room evicted after the TTL, document and presence destroyed
C3_EvictedAfterTtl ==
  /\ now >= StartTime + ROOM_TTL_MS
  /\ \E d \in DOMAIN docs :
       /\ docs[d].doc = "destroyed"
       /\ docs[d].awareness = "destroyed"
       /\ \A r \in DOMAIN rooms : rooms[r].doc # d

\* a room id no request names
UnknownRoom == <<"n", "o", "n", "e">>

\* C10: cleanupRoom is terminal and idempotent.  Run in any reachable state
\* on a registered room it leaves the room id absent from the registry
\* whether or not a destroy() throws, and touches no other room; run again,
\* or on a room id that is not registered, it changes nothing.
C10_EvictNowTerminal ==
  \A r \in RoomSegs \cup { UnknownRoom }, a \in BOOLEAN, d \in BOOLEAN :
    LET after == cleanupRoom(Srv, r, a, d)
    IN /\ ~Has(after.rooms, r)
       /\ \A q \in DOMAIN rooms \ {r} :
            Has(after.rooms, q) /\ after.rooms[q] = rooms[q]
       /\ ~Has(rooms, r) => after = Srv
       /\ \A a2 \in BOOLEAN, d2 \in BOOLEAN :
            cleanupRoom(after, r, a2, d2) = after

\* a room is gone from the registry although a destroy() threw
C10_EvictedDespiteThrow ==
  \E d \in DOMAIN docs :
    /\ docs[d].doc = "threw" \/ docs[d].awareness = "threw"
    /\ \A r \in DOMAIN rooms : rooms[r].doc # d

\* C11: when the attach callback runs for a socket the gateway let through
\* and the room of the socket has been evicted meanwhile, the callback makes
\* a new context for the room id and attaches the socket to it; the socket is
\* not turned away, and never joins a context that was destroyed.
C11_RacingAttachRecreates ==
  [][ \A ws \in Sockets :
        (AttachCallback(ws) /\ ~Has(rooms, socks[ws].room)) =>
          /\ Has(rooms', socks[ws].room)
          /\ rooms'[socks[ws].room].connections = {ws}
          /\ docs'[rooms'[socks[ws].room].doc].doc = "live"
          /\ socks'[ws].state = "open"
          /\ answer'.code # RoomMissing ]_vars

\* C14: the history of the Room component is linear.  A new local edit
\* empties the redo stack, so that redo is unavailable and a redo changes
\* nothing until an undo has run; an undo moves the most recent snapshot of
\* the undo stack to the redo stack.
C14_LinearHistory ==
  LET before == historyEvent.before
  IN /\ historyEvent.kind = "change" =>
          /\ historyRef.redoStack = <<>>
          /\ ~historyState.canRedo
     /\ (historyEvent.kind = "redo" /\ before.redoStack = <<>>) =>
          historyRef = before
     /\ (historyEvent.kind = "undo" /\ Len(before.undoStack) > 1) =>
          /\ historyRef.undoStack = Front(before.undoStack)
          /\ historyRef.redoStack =
               Append(before.redoStack, Last(before.undoStack))

\* an edit that found snapshots to redo, and left none
C14_EditAfterUndo ==
  /\ historyEvent.kind = "change"
  /\ historyEvent.before.redoStack # <<>>
  /\ historyRef.redoStack = <<>>

\* C20: the edit handler of a view object commits at most once in 120 ms;
\* the edit events that arrive inside the window are merged into one
\* trailing commit, which carries the geometry the object has when it runs,
\* so that once no timeout is pending the last commit is the object's
\* geometry.
C20_EditsCoalesced ==
  /\ \A i \in 2..Len(committed) :
       committed[i].at - committed[i - 1].at >= EditThrottleMs
  /\ (throttled.timeout = None /\ committed # <<>>) =>
       Last(committed).geometry = roundCoordinate(dragged)

\* a burst has ended in a trailing commit of another geometry than the
\* leading one
C20_TrailingCommit ==
  /\ Len(committed) >= 2
  /\ committed[2].by = "trailing"
  /\ committed[2].geometry # committed[1].geometry
  /\ throttled.timeout = None

\* features.toJSON() on the page of client c
featureList(c) == yToJSON(pages[c].features)

\* C12: a page in read-only mode never writes to the feature list, to the
\* selection map or to the view map, whatever event of the user interface
\* or of the provider reaches it.
C12_ReadOnlyNeverWrites ==
  \A c \in Clients : pages[c].readOnly => pages[c].wrote = {}

\* C13: an undo never takes back what another client did: the items other
\* clients have inserted stay in the list, and a feature another client has
\* removed is not in the list after the undo.
C13_UndoKeepsRemoteEdits ==
  [][\A c \in Clients, n \in BOOLEAN :
       Undo(c, n) =>
         /\ \A id \in pages[c].remoteRemoved : id \notin IdsOf(featureList(c)')
         /\ \A it \in Items(Visible(pages[c].features)) :
              it.uid[2] # c => it \in Items(Visible(pages'[c].features))]_vars

\* C15: once a handler of the page has returned, the page has a layer for
\* every feature of the list and for no other id, and each layer has the
\* geometry of an entry of the list with its id and holds that entry.
C15_LayersMatchFeatures ==
  \A c \in Clients :
    LET list == featureList(c)
    IN /\ LayerIds(c) = IdsOf(list)
       /\ \A id \in LayerIds(c) :
            \E i \in 1..Len(list) :
              /\ list[i].id = id
              /\ layerToGeoJSON(pages[c].layersRef[id]).geometry = list[i].geometry
              /\ pages[c].layersRef[id].feature = Some(list[i])

\* a page has reconciled its layers with the removal of one feature and the
\* edit of another, both made by the other client
C15_ReconciledRemoteChanges ==
  \E c \in Clients :
    /\ pages[c].remoteRemoved # {}
    /\ \E id \in LayerIds(c) :
         /\ pages[c].layersRef[id].latlngs \notin
              { createLayerForFeature(layerToFeature(layer, id, "line")).latlngs :
                  layer \in DrawnShapes }
         /\ \E i \in 1..Len(pages[c].features) :
              /\ ~pages[c].features[i].deleted
              /\ pages[c].features[i].content.id = id
              /\ pages[c].features[i].uid[2] # c

\* C16: when a writable page has handled the removal of a layer, the list
\* holds no feature of the layer's id.
C16_RemovalDeletesFeature ==
  [][\A c \in Clients :
       \A id \in LayerIds(c), n \in BOOLEAN :
         (~pages[c].readOnly /\ RemoveLayer(c, id, n)) =>
           id \notin IdsOf(featureList(c)')]_vars

\* C17: the reconciliation of the layers with a change of another client
\* writes nothing to the document: no removal it makes under
\* suppressLocalEventsRef comes back as a transaction of this page.
C17_ReconciliationWritesNothing ==
  \A c \in Clients : ~pages[c].echoed

\* C18: no two features of the list have the same id, and an edit of a
\* layer leaves the ids of the list as they are.
C18_UniqueFeatureIds ==
  [][/\ \A c \in Clients :
          LET list == featureList(c)'
          IN \A i, j \in 1..Len(list) : list[i].id = list[j].id => i = j
     /\ \A c \in Clients :
          \A id \in LayerIds(c), n \in BOOLEAN :
            EditLayer(c, id, n) => IdsOf(featureList(c)') = IdsOf(featureList(c))]_vars

TimersOf(r) == { tm \in timers : tm.roomId = r }

\* C24: a room has at most one pending cleanup timer, the one its context
\* holds; a timer is pending only for a registered room without connections;
\* and the close handler that removes the last connection of a room leaves
\* the room with a timer armed for the TTL.
C24_TimerDiscipline ==
  [][ /\ \A r \in RoomSegs : Cardinality(TimersOf(r)') <= 1
      /\ \A tm \in timers' :
           /\ Has(rooms', tm.roomId)
           /\ rooms'[tm.roomId].cleanupTimer = tm.id
           /\ rooms'[tm.roomId].connections = {}
      /\ \A ws \in Sockets :
           ( /\ ws \in DOMAIN socks
             /\ socks[ws].state = "open"
             /\ socks'[ws].state = "gone"
             /\ running'
             /\ Has(rooms', socks[ws].room)
             /\ rooms'[socks[ws].room].connections = {} ) =>
               \E tm \in timers' :
                 /\ tm.roomId = socks[ws].room
                 /\ tm.due = now + ROOM_TTL_MS
    ]_vars

\* a room whose timer was cancelled by a connection has a timer again
C24_ArmedAgain ==
  \E r \in DOMAIN rooms :
    /\ timerSeq >= 2
    /\ ctxSeq = 1
    /\ rooms[r].connections = {}
    /\ TimersOf(r) # {}

\* the contexts the step has made
Created == { r \in DOMAIN rooms' : ~Has(rooms, r) \/ rooms'[r].ctx # rooms[r].ctx }

\* C26: the creation counter grows by one in every step that makes a room
\* context and is left alone by every other step, and it is never less than
\* the number of registered rooms.
C26_CreationCounter ==
  [][ /\ totalRoomsCreated' = totalRoomsCreated + Cardinality(Created)
      /\ totalRoomsCreated' >= Cardinality(DOMAIN rooms') ]_vars

\* rooms have been created, turned away and evicted: the counter is ahead
\* of the registry
C26_CountsEvictedRooms ==
  /\ totalRoomsCreated = 2
  /\ Cardinality(DOMAIN rooms) = 1
  /\ answer.code = RateLimit

\* C27: the first request for a room id that a cleanup timer has evicted is
\* treated as the request for a new room: it is refused with 429 when its
\* origin has created a room within the throttle window, and otherwise it
\* makes a new context with a new, empty document, with the passcode of the
\* request (or none) as the room's passcode, stamps the origin and adds one
\* to the creation counter.
C27_RecreatedFromScratch ==
  [][ ( /\ UpgradeStep
        /\ answer'.roomId \in evicted
        /\ ~Has(rooms, answer'.roomId) ) =>
          LET r == answer'.roomId
              ip == extractIp(answer'.req)
          IN IF now' - RateGet(Srv, ip) < ROOM_CREATION_THROTTLE_MS
             THEN /\ answer'.code = RateLimit
                  /\ ~Has(rooms', r)
                  /\ totalRoomsCreated' = totalRoomsCreated
             ELSE /\ answer'.code = Switching
                  /\ Has(rooms', r)
                  /\ rooms'[r].ctx = ctxSeq + 1
                  /\ rooms'[r].connections = {}
                  /\ rooms'[r].doc \notin DOMAIN docs
                  /\ docs'[rooms'[r].doc] = NewDoc
                  /\ rooms'[r].passcode = SanitizePasscode(answer'.req.k)
                  /\ roomCreationRate'[ip] = now'
                  /\ totalRoomsCreated' = totalRoomsCreated + 1
    ]_vars

\* an evicted room is registered again, with a passcode it did not have
\* before
C27_RecreatedWithSecret ==
  \E r \in evicted :
    /\ Has(rooms, r)
    /\ rooms[r].passcode # None
    /\ totalRoomsCreated = 2
    /\ Len(docs) = 2
    /\ docs[1].doc = "destroyed"

\* the process has exited through shutdown
ShutDown == served.kind = "exit"

\* C28 as stated: after the shutdown callback the registry is empty and the
\* document and the presence set of every room it found are destroyed.
C28_ShutdownDestroysAll ==
  ShutDown =>
    /\ rooms = EmptyMap
    /\ \A r \in DOMAIN served.found :
         /\ docs[served.found[r].doc].doc = "destroyed"
         /\ docs[served.found[r].doc].awareness = "destroyed"

\* C28 as amended: after the shutdown callback the registry and the docs
\* map of y-websocket are empty, and destroy() has been called on the
\* document and on the presence set of every room the callback found: each
\* is destroyed unless its destroy() threw.
C28_ShutdownEvictsAll ==
  ShutDown =>
    /\ rooms = EmptyMap
    /\ yDocs = EmptyMap
    /\ \A r \in DOMAIN served.found :
         /\ docs[served.found[r].doc].doc # "live"
         /\ docs[served.found[r].doc].awareness # "live"

\* the shutdown found a room with a connection and a room with a pending
\* timer
C28_ShutdownOfBusyServer ==
  /\ ShutDown
  /\ \E r, q \in DOMAIN served.found :
       /\ served.found[r].connections # {}
       /\ served.found[q].cleanupTimer # NoTimer

\* C29: serving /health or /metrics leaves the registry as it is, /health
\* reports status ok and the number of rooms, and /metrics reports the
\* number of rooms, the creation counter and the number of rooms with a
\* pending timer, which is the number of rooms without a connection (stated
\* for the states where no handshake is under way).
C29_EndpointsAreViews ==
  [][ (served' # served /\ served'.kind \in { "health", "metrics" }) =>
        /\ UNCHANGED << registryVars, timers >>
        /\ served'.kind = "health" =>
             /\ served'.body.status = "ok"
             /\ served'.body.rooms = Cardinality(DOMAIN rooms)
        /\ served'.kind = "metrics" =>
             /\ served'.body.rooms_active = Cardinality(DOMAIN rooms)
             /\ served'.body.rooms_total_created = totalRoomsCreated
             /\ served'.body.rooms_waiting_cleanup =
                  Cardinality({ r \in DOMAIN rooms : TimersOf(r) # {} })
             /\ (\A ws \in DOMAIN socks : socks[ws].state # "pending") =>
                  served'.body.rooms_waiting_cleanup =
                    Cardinality({ r \in DOMAIN rooms : rooms[r].connections = {} })
    ]_vars

\* C21: a committed feature is normalized, normalizing it again returns the
\* same coordinates, and an edit handler that commits a layer nobody moved
\* commits exactly the geometry that was in the document.
C21_NormalizationIdempotent ==
  [][ /\ stored' # None =>
           normalizeFeature(stored'[1]).geometry = stored'[1].geometry
      /\ (rewrite'.op = "edit" /\ ~rewrite'.moved) =>
           stored'[1].geometry = rewrite'.before.geometry ]_vars

\* an edit handler has committed a point nobody moved since it was imported
\* from halves of the sixth decimal, west and south of the origin
C21_UnmovedPointRewritten ==
  /\ rewrite.op = "edit"
  /\ ~rewrite.moved
  /\ stored[1].geometry.type = "Point"
  /\ stored[1].geometry.coordinates = << 0 - 20, 0 - 30 >>

\* the own state of client c in its awareness, None when it has none
OwnState(aw, c) ==
  IF c \in DOMAIN aw[c].states THEN Some(aw[c].states[c]) ELSE None

\* C22: a handler of client c changes, in the awareness of c, only the
\* state of c, and no awareness of another client; connecting publishes the
\* user, a pointer move replaces the cursor by the rounded position of the
\* pointer and the time, pointer-leave clears the cursor, both keep the
\* user, and leaving the page removes the state.
C22_OwnRecordOnly ==
  [][ \A c \in Clients :
        (presenceEvent' # presenceEvent /\ presenceEvent'.by = c
           /\ presenceEvent'.op # "receive") =>
          /\ \A d \in Clients \ { c } :
               /\ awareness'[d] = awareness[d]
               /\ (d \in DOMAIN awareness'[c].states) = (d \in DOMAIN awareness[c].states)
               /\ d \in DOMAIN awareness[c].states =>
                    awareness'[c].states[d] = awareness[c].states[d]
          /\ presenceEvent'.op = "connect" =>
               OwnState(awareness', c) = Some([user |-> Some(getLocalUser(c)), cursor |-> None])
          /\ presenceEvent'.op = "mousemove" =>
               /\ OwnState(awareness', c) # None
               /\ OwnState(awareness', c)[1].user = OwnState(awareness, c)[1].user
               /\ \E latlng \in Pointers :
                    OwnState(awareness', c)[1].cursor =
                      Some([lat |-> roundCoordinate(latlng.lat),
                            lng |-> roundCoordinate(latlng.lng),
                            updatedAt |-> clientNow])
          /\ presenceEvent'.op = "mouseout" =>
               /\ OwnState(awareness', c) # None
               /\ OwnState(awareness', c)[1] =
                    [user |-> OwnState(awareness, c)[1].user, cursor |-> None]
          /\ presenceEvent'.op = "teardown" =>
               OwnState(awareness', c) = None ]_vars

\* a client that knows the state of the other, cursor included, has left
\* its own cursor behind on pointer-leave
C22_PointerLeftAmongOthers ==
  /\ presenceEvent = [op |-> "mouseout", by |-> 1]
  /\ 2 \in DOMAIN awareness[1].states
  /\ awareness[1].states[2].cursor # None
  /\ awareness[2].live
  /\ 1 \in DOMAIN awareness[2].states
  /\ awareness[2].states[1].cursor # None

\* C23: after every change of the states a connected client knows, the
\* participants it shows are the states with a user, one entry each, sorted
\* by name, with isSelf for its own state only.
C23_ParticipantsFollowPresence ==
  \A c \in Clients :
    awareness[c].live =>
      participants[c] = updateParticipants(awareness[c].states, c)

\* C25: every change a handler of the user interface has made to the
\* features, the selection or the shared view was made in a transaction of
\* the page's local-edit origin.
C25_LocalEditsTagged ==
  \A c \in Clients :
    \A change \in pages[c].origins : change.origin = undoOrigin

\* C30: a sweep removes exactly the rooms whose lastSeen is more than 60
\* minutes before the sweep and changes no other room, no other step removes
\* a room, and a registered room is never older than the TTL and one period
\* of the sweep.
C30_SweepRemovesIdleRooms ==
  [][ /\ swept' # swept =>
           /\ \A r \in DOMAIN registry :
                (r \notin DOMAIN registry') <=>
                  (registryNow - registry[r].lastSeen > 60 * 60 * 1000)
           /\ \A r \in DOMAIN registry' :
                r \in DOMAIN registry /\ registry'[r] = registry[r]
      /\ swept' = swept => DOMAIN registry \subseteq DOMAIN registry'
      /\ \A r \in DOMAIN registry' :
           registryNow' <= registry'[r].lastSeen + 60 * 60 * 1000 + 10 * 60 * 1000
    ]_vars

\* a sweep has kept a room it found seen exactly 60 minutes before and has
\* removed a room seen earlier
C30_SweptAtTheTtl ==
  \E r \in DOMAIN swept.found, q \in DOMAIN swept.found :
    /\ swept.at - swept.found[r].lastSeen = REGISTRY_ROOM_TTL_MS
    /\ r \in DOMAIN registry
    /\ registry[r] = swept.found[r]
    /\ swept.at - swept.found[q].lastSeen > REGISTRY_ROOM_TTL_MS
    /\ q \notin DOMAIN registry

\* the room ids a step of the server is about: the room of the request, of
\* the socket whose callback or close handler ran, of the timeout that fired
StepRooms ==
  { answer'.roomId : x \in { 1 } \cap { requests' - requests } }
    \cup { socks[ws].room : ws \in { w \in DOMAIN socks : socks'[w] # socks[w] } }
    \cup { tm.roomId : tm \in timers \ timers' }

\* all the server holds for room id r: the context with its connections,
\* passcode, timestamps and timer handle, the document with its presence
\* set, the entry of the docs map and the pending timeouts
RoomState(r) ==
  [ context |-> IF Has(rooms, r) THEN << rooms[r] >> ELSE << >>,
    document |-> IF Has(rooms, r) THEN << docs[rooms[r].doc] >> ELSE << >>,
    yDoc |-> IF Has(yDocs, r) THEN << docs[yDocs[r]] >> ELSE << >>,
    timeouts |-> TimersOf(r) ]

\* C31: a step of the server is about one room id at most, and what the
\* server holds for every other room id is the same before and after it.
C31_OtherRoomsUntouched ==
  [][ /\ Cardinality(StepRooms) <= 1
      /\ \A r \in RoomSegs \ StepRooms : RoomState(r)' = RoomState(r) ]_vars

\* a room with a passcode and a connection stands beside a room that was
\* evicted and waits, created again, for its cleanup
C31_TwoRoomsSideBySide ==
  \E r \in DOMAIN rooms, q \in DOMAIN rooms :
    /\ rooms[r].connections # {}
    /\ rooms[r].passcode # None
    /\ q \in evicted
    /\ TimersOf(q) # {}

\* C32: a request for a room id that is registered is never answered 429
\* and leaves the creation times of the origins as they are.
C32_ThrottleOnlyOnCreation ==
  [][ (UpgradeStep /\ Has(rooms, answer'.roomId)) =>
        /\ answer'.code # RateLimit
        /\ roomCreationRate' = roomCreationRate ]_vars

\* the origin has created a room within the throttle window and is let
\* into that room again
C32_JoinedInsideTheWindow ==
  /\ requests = 2
  /\ totalRoomsCreated = 1
  /\ answer.code = Switching
  /\ now - RateGet(Srv, extractIp(answer.req)) < ROOM_CREATION_THROTTLE_MS
  /\ now > RateGet(Srv, extractIp(answer.req))

\* C33: when a let-through socket whose room id names no context is done
\* with its handshake, the socket ends there: the registry, the documents,
\* the counters and the timeouts stay as they are, no room holds the
\* socket, the process keeps running, and the socket the callback ran for
\* is closed with 1011.
C33_RoomMissingClosesOnly ==
  [][ \A ws \in DOMAIN socks :
        ( /\ socks[ws].state = "pending"
          /\ socks'[ws] # socks[ws]
          /\ ~Has(rooms, socks[ws].room) ) =>
            /\ socks' = [socks EXCEPT ![ws] = Gone]
            /\ UNCHANGED << registryVars, timers >>
            /\ \A r \in DOMAIN rooms' : ws \notin rooms'[r].connections
            /\ running'
            /\ answer' # NoAnswer =>
                 /\ answer'.code = RoomMissing
                 /\ answer'.roomId = socks[ws].room ]_vars

\* a socket was closed with 1011 while another room is registered
C33_ClosedRoomMissing ==
  /\ answer.code = RoomMissing
  /\ ~Has(rooms, answer.roomId)
  /\ DOMAIN rooms # {}
  /\ running

\* C34: the guards are balanced: between the handlers, the suppression flag
\* of the reconciler and the restoring flag of the snapshot history are
\* false, also after a removal or a restore that has failed, so that no
\* later deletion of the user is suppressed.
C34_GuardsBalanced ==
  /\ \A c \in Clients : ~suppressLocalEventsRef[c]
  /\ ~isRestoringRef

\* C35: the snapshot history of the Room component.  The undo stack holds
\* the base snapshot at least, an undo that finds one snapshot changes
\* nothing, the undo button is enabled exactly when the stack holds more
\* than one snapshot, an undo or a redo records no snapshot, and a redo
\* that follows an undo at once gives back the stacks and the displayed
\* layers the undo found.
C35_SnapshotHistory ==
  [][ /\ Len(historyRef'.undoStack) >= 1
      /\ historyState'.canUndo <=> Len(historyRef'.undoStack) > 1
      /\ (historyEvent'.kind = "undo" /\ Len(historyRef.undoStack) = 1) =>
            << historyRef', drawnItems' >> = << historyRef, drawnItems >>
      /\ historyEvent'.kind \in { "undo", "redo" } =>
            Len(historyRef'.undoStack) + Len(historyRef'.redoStack) =
              Len(historyRef.undoStack) + Len(historyRef.redoStack)
      /\ ( /\ historyEvent.kind = "undo"
           /\ Len(historyEvent.before.undoStack) > 1
           /\ historyEvent'.kind = "redo" ) =>
            /\ historyRef' = historyEvent.before
            /\ drawnItems' = historyEvent.layers ]_vars

\* C36: a layer the user draws gives one view object and one feature.  The
\* step that registers the drawn layer under a new id puts no other view
\* object of that id on the map, leaves the drawn layer registered under
\* the id with the geometry of the feature, and lengthens the feature list
\* by one entry, the only one of that id.
C36_OneLayerOneFeature ==
  [][ \A c \in Clients : \A id \in DOMAIN pages'[c].layersRef :
        [id |-> id, how |-> "drawn"] \in pages'[c].made \ pages[c].made =>
          LET list == yToJSON(pages'[c].features)
              at == { i \in 1..Len(list) : list[i].id = id }
          IN /\ { m \in pages'[c].made : m.id = id } = { [id |-> id, how |-> "drawn"] }
             /\ Cardinality(at) = 1
             /\ Len(list) = Len(yToJSON(pages[c].features)) + 1
             /\ \A i \in at :
                   /\ pages'[c].layersRef[id].feature = Some(list[i])
                   /\ pages'[c].layersRef[id] = updateLayerGeometry(pages'[c].layersRef[id], list[i])
                   /\ Len(pages'[c].layersRef[id].latlngs) > 0 ]_vars

\* a page with a layer its user has drawn and a layer the reconciliation
\* has created, the drawn one still registered
C36_DrewAmongOthers ==
  \E c \in Clients :
    /\ Cardinality({ m \in pages[c].made : m.how = "drawn" }) >= 1
    /\ \E m \in pages[c].made : m.how = "created"
    /\ \A m \in pages[c].made : m.how = "drawn" => m.id \in DOMAIN pages[c].layersRef

\* C37: an edit commit, the trailing one of a throttle included, leaves the
\* document as it is when the list holds no feature of its id; when the
\* list holds one, the commit replaces the entry at the position of the id
\* and leaves the length of the list and every other entry as they were.
C37_EditCommitInPlace ==
  [][ \A c \in Clients : \A id \in LayerIds(c) \cup MadeIds(c) :
        ( \/ \E n \in BOOLEAN : EditLayer(c, id, n)
          \/ \E layer \in DetachedLayers, n \in BOOLEAN : LateEdit(c, id, layer, n) ) =>
          LET list == yToJSON(pages[c].features)
              after == yToJSON(pages'[c].features)
              index == findIndex(list, id)
          IN IF index = -1
             THEN /\ pages'[c].features = pages[c].features
                  /\ pages'[c].selectionMap = pages[c].selectionMap
                  /\ pages'[c].viewMap = pages[c].viewMap
                  /\ pages'[c].wrote = pages[c].wrote
             ELSE /\ Len(after) = Len(list)
                  /\ after[index + 1].id = id
                  /\ \A i \in 1..Len(list) : i # index + 1 => after[i] = list[i] ]_vars

\* a trailing commit has found its feature removed, and the list has
\* other features
C37_LateEditFoundNothing ==
  \E c \in Clients : \E id \in pages[c].missed :
    /\ id \notin IdsOf(yToJSON(pages[c].features))
    /\ id \in MadeIds(c)
    /\ yToJSON(pages[c].features) # << >>

\* C38: every room code a home page navigates to passes the check of the
\* gateway on room identifiers: letters, digits, '_' and '-' only, and
\* between 3 and 64 of them, whatever session name the user has typed.
C38_GeneratedCodesAccepted ==
  roomCode # NoCode => ValidRoomId(roomCode.slug)

====
